---------------------------- MODULE Spec2Model ----------------------------
(***************************************************************************)
(* A model of the cash-flow dashboard's numerical core and of the API      *)
(* routes in front of it: the Monte Carlo engine (monte-carlo.ts, here     *)
(* src/unnamed/part_005), POST /api/simulation (src/unnamed/part_002),     *)
(* the forecasting utility (src/lib/ml-forecasting.ts) and                 *)
(* /api/forecasts (src/app/api/forecasts/route.ts).                        *)
(*                                                                         *)
(* Numbers.  A JavaScript number is modelled as an integer in fixed point: *)
(* money in whole currency units, every factor, rate and standard normal   *)
(* deviate in thousandths (Scale).  A product is rounded down to the unit  *)
(* after each multiplication, where the double rounds to 53 bits.  NaN is  *)
(* one reserved value of the number type, as in IEEE 754, and every        *)
(* arithmetic operator and comparison treats it as JavaScript does.        *)
(* null and undefined are the empty sequence and a present value v is the  *)
(* sequence <<v>>.                                                         *)
(***************************************************************************)
EXTENDS Integers, Sequences, FiniteSets, TLC

(***************************************************************************)
(* Bounds of the model.                                                    *)
(***************************************************************************)
\* The longest time horizon of a run explored under every random draw (SpecRun).
MaxHorizon == 3

(***************************************************************************)
(* Program constants.                                                      *)
(***************************************************************************)
StartingBalance == 500000
BatchSize == 50
MinRuns == 100
MaxRuns == 2000
DefaultRuns == 500
MinTimeHorizon == 1
MaxTimeHorizon == 36
DefaultTimeHorizon == 12
HistoryMonths == 24

(***************************************************************************)
(* Numbers                                                                 *)
(***************************************************************************)
Scale == 10 * 10 * 10

NaN == 0 - 2147483647

IsNaN(x) == x = NaN

Null == << >>

Some(x) == << x >>

Add(a, b) == IF IsNaN(a) \/ IsNaN(b) THEN NaN ELSE a + b

Sub(a, b) == IF IsNaN(a) \/ IsNaN(b) THEN NaN ELSE a - b

\* a * f for a factor f in thousandths: floor(a * f / Scale), computed without
\* an intermediate product wider than 32 bits.
MulS(a, f) ==
    IF IsNaN(a) \/ IsNaN(f) THEN NaN
    ELSE (a \div Scale) * f + ((a % Scale) * f) \div Scale

\* a / b rounded down to the unit; 0 / 0 is NaN.  (x / 0 for x # 0, an
\* infinity, does not occur: every divisor below is an array length whose
\* dividend is that array's sum.)
FDiv(a, b) == IF IsNaN(a) \/ IsNaN(b) \/ b = 0 THEN NaN ELSE a \div b

Lt(a, b) == ~IsNaN(a) /\ ~IsNaN(b) /\ a < b

Le(a, b) == ~IsNaN(a) /\ ~IsNaN(b) /\ a <= b

Gt(a, b) == Lt(b, a)

Ge(a, b) == Le(b, a)

MathMin(a, b) == IF IsNaN(a) \/ IsNaN(b) THEN NaN ELSE IF a <= b THEN a ELSE b

MathMax(a, b) == IF IsNaN(a) \/ IsNaN(b) THEN NaN ELSE IF a >= b THEN a ELSE b

MathAbs(a) == IF IsNaN(a) THEN NaN ELSE IF a < 0 THEN 0 - a ELSE a

\* x || d on an optional number: undefined, 0 and NaN are falsy.
OrElse(x, d) == IF x = Null \/ x[1] = 0 \/ IsNaN(x[1]) THEN d ELSE x[1]

\* x || d on a number.
NumOrElse(x, d) == IF x = 0 \/ IsNaN(x) THEN d ELSE x

\* ceil(r * r / Scale), without a product wider than 32 bits.
SquareK(r) ==
    MulS(r, r) + (IF ((r % Scale) * (r % Scale)) % Scale = 0 THEN 0 ELSE 1)

RECURSIVE SqrtSearch(_, _, _)
\* The largest r in lo..hi with r * r <= nk * Scale.
SqrtSearch(nk, lo, hi) ==
    IF lo >= hi THEN lo
    ELSE LET mid == (lo + hi + 1) \div 2
         IN  IF SquareK(mid) <= nk THEN SqrtSearch(nk, mid, hi)
             ELSE SqrtSearch(nk, lo, mid - 1)

\* Math.sqrt of a number held in thousands (a sum of squares of money does
\* not fit 32 bits in units), rounded down to the unit.
MathSqrtK(nk) == IF IsNaN(nk) \/ nk < 0 THEN NaN ELSE SqrtSearch(nk, 0, 1400000)

RECURSIVE MathPow(_, _)
\* Math.pow(b, e) for a base in thousandths and an integer exponent e >= 0.
MathPow(b, e) == IF e = 0 THEN Scale ELSE MulS(MathPow(b, e - 1), b)

RECURSIVE SumSeq(_)
SumSeq(s) == IF s = << >> THEN 0 ELSE Add(Head(s), SumSeq(Tail(s)))

(***************************************************************************)
(* The random source.  Math.random() returns k/12 for k in 0..11; a source *)
(* is a cyclic sequence of such k and a position in it.                    *)
(***************************************************************************)
MathRandom(r) == r.cycle[r.pos + 1]

Advance(r) == [r EXCEPT !.pos = (r.pos + 1) % Len(r.cycle)]

RECURSIVE SkipZeros(_)
\* while (u === 0) u = Math.random(): the source at its next non-zero value.
SkipZeros(r) == IF MathRandom(r) = 0 THEN SkipZeros(Advance(r)) ELSE r

\* sqrt(-2 ln(k/12)) and cos(2 pi k/12) in thousandths, k = 1..11.
SqrtTerm == << 2229, 1893, 1665, 1482, 1323, 1177, 1038, 901, 759, 604, 417 >>

CosTerm == << 866, 500, 0, -500, -866, -1000, -866, -500, 0, 500, 866 >>

\* Box-Muller: the value drawn and the source after the draw.
randomNormal(mean, std, r) ==
    LET ru == SkipZeros(r)
        u  == MathRandom(ru)
        rv == SkipZeros(Advance(ru))
        v  == MathRandom(rv)
        z  == MulS(SqrtTerm[u], CosTerm[v])
    IN  [value |-> Add(MulS(std, z), mean), rng |-> Advance(rv)]

(***************************************************************************)
(* Scenarios, seasonality and the two flow generators                      *)
(***************************************************************************)
ScenarioType == {"BASE", "OPTIMISTIC", "PESSIMISTIC", "STRESS_TEST"}

InflowScenarioMultiplier(scenario) ==
    CASE scenario = "OPTIMISTIC" -> 1200
      [] scenario = "BASE" -> 1000
      [] scenario = "PESSIMISTIC" -> 800
      [] scenario = "STRESS_TEST" -> 600

OutflowScenarioMultiplier(scenario) ==
    CASE scenario = "OPTIMISTIC" -> 900
      [] scenario = "BASE" -> 1000
      [] scenario = "PESSIMISTIC" -> 1100
      [] scenario = "STRESS_TEST" -> 1300

SeasonalityInflow ==
    << 900, 950, 1100, 1000, 950, 850, 800, 850, 1000, 1150, 1300, 1200 >>

SeasonalityOutflow ==
    << 1000, 1000, 1050, 1000, 950, 900, 850, 900, 1000, 1100, 1150, 1100 >>

\* A faulty variant of SeasonIndex: the factor of the calendar month of the record's date.
SeasonIndex_ByCalendarMonth(month, clock) == (clock + month) % 12

\* The index of the seasonal factor of loop month `month` run at clock `clock`.
SeasonIndex(month, clock) == month % 12

generateRandomInflow(month, clock, baseParams, scenario, r) ==
    LET scenarioMultiplier == InflowScenarioMultiplier(scenario)
        g  == randomNormal(baseParams.growthRate.mean, baseParams.growthRate.std, r)
        growthFactor == MathPow(Add(Scale, g.value), month)
        seasonalFactor ==
            NumOrElse(baseParams.seasonality.inflow[SeasonIndex(month, clock) + 1], Scale)
        rf == randomNormal(Scale, 100, g.rng)
        ba == randomNormal(baseParams.baseInflowMean, baseParams.baseInflowStd, rf.rng)
    IN  [value |-> MathMax(0, MulS(MulS(MulS(MulS(ba.value, scenarioMultiplier),
                                             growthFactor), seasonalFactor), rf.value)),
         rng |-> ba.rng]

generateRandomOutflow(month, clock, baseParams, scenario, r) ==
    LET scenarioMultiplier == OutflowScenarioMultiplier(scenario)
        outflowGrowthRate == MulS(baseParams.growthRate.mean, 700)
        g  == randomNormal(outflowGrowthRate, baseParams.growthRate.std, r)
        growthFactor == MathPow(Add(Scale, g.value), month)
        seasonalFactor ==
            NumOrElse(baseParams.seasonality.outflow[SeasonIndex(month, clock) + 1], Scale)
        rf == randomNormal(Scale, 80, g.rng)
        ba == randomNormal(baseParams.baseOutflowMean, baseParams.baseOutflowStd, rf.rng)
    IN  [value |-> MathMax(0, MulS(MulS(MulS(MulS(ba.value, scenarioMultiplier),
                                             growthFactor), seasonalFactor), rf.value)),
         rng |-> ba.rng]

(***************************************************************************)
(* The data store's cashTransaction table and the historical query.  Time  *)
(* is counted in months: a date is a month index, index % 12 its calendar  *)
(* month.                                                                  *)
(***************************************************************************)
\* date.toISOString() of a date held as a month index: the year and the month
\* of the year, counted from 1.
ToISOString(date) == << date \div 12, (date % 12) + 1 >>

Tx(date, type, amount, segment) ==
    [transactionDate |-> date, type |-> type, amount |-> amount,
     businessSegmentId |-> segment]

\* The rows of cashTransaction, in the order the store returns them.
\* Segment "north" trades in both directions over two months, "south" has
\* inflows only, and "dormant" has no row inside the lookback window.
CashTransactionTable(clock) ==
    << Tx(clock - 2, "INFLOW", 480000, "north"),
       Tx(clock - 2, "OUTFLOW", 410000, "north"),
       Tx(clock - 1, "INFLOW", 300000, "north"),
       Tx(clock - 1, "INFLOW", 220000, "north"),
       Tx(clock - 1, "OUTFLOW", 390000, "north"),
       Tx(clock - 1, "INFLOW", 120000, "south"),
       Tx(clock - 30, "INFLOW", 990000, "dormant") >>

\* prisma.cashTransaction.findMany({ where: { transactionDate, segment } })
FindTransactions(table, startDate, endDate, segmentId) ==
    SelectSeq(table,
              LAMBDA t : /\ t.transactionDate >= startDate
                         /\ t.transactionDate <= endDate
                         /\ (segmentId # Null => t.businessSegmentId = segmentId[1]))

RECURSIVE KeyIndex(_, _)
\* The position of monthKey in the Map's insertion order, 0 when absent.
KeyIndex(monthlyData, monthKey) ==
    IF monthlyData = << >> THEN 0
    ELSE IF monthlyData[Len(monthlyData)].monthKey = monthKey THEN Len(monthlyData)
    ELSE KeyIndex(SubSeq(monthlyData, 1, Len(monthlyData) - 1), monthKey)

RECURSIVE GroupByMonth(_, _)
\* transactions.forEach(...) over the Map monthlyData.
GroupByMonth(transactions, monthlyData) ==
    IF transactions = << >> THEN monthlyData
    ELSE LET t == Head(transactions)
             monthKey == t.transactionDate
             withKey ==
                 IF KeyIndex(monthlyData, monthKey) = 0
                 THEN Append(monthlyData, [monthKey |-> monthKey, inflow |-> 0, outflow |-> 0])
                 ELSE monthlyData
             k == KeyIndex(withKey, monthKey)
             updated ==
                 IF t.type = "INFLOW"
                 THEN [withKey EXCEPT ![k].inflow = Add(@, t.amount)]
                 ELSE [withKey EXCEPT ![k].outflow = Add(@, t.amount)]
         IN  GroupByMonth(Tail(transactions), updated)

getHistoricalData(segmentId, clock) ==
    LET endDate == clock
        startDate == clock - HistoryMonths
        transactions ==
            FindTransactions(CashTransactionTable(clock), startDate, endDate, segmentId)
        monthlyData == GroupByMonth(transactions, << >>)
    IN  [inflows  |-> [k \in 1..Len(monthlyData) |-> monthlyData[k].inflow],
         outflows |-> [k \in 1..Len(monthlyData) |-> monthlyData[k].outflow]]

(***************************************************************************)
(* Base parameters                                                         *)
(***************************************************************************)
NoCustomVariables ==
    [baseInflowMean |-> Null, baseInflowStd |-> Null, baseOutflowMean |-> Null,
     baseOutflowStd |-> Null, growthRateMean |-> Null, growthRateStd |-> Null]

RECURSIVE SumSquares(_, _)
\* The sum of Math.pow(val - mean, 2) over the array, in thousands.
SumSquares(s, mean) ==
    IF s = << >> THEN 0
    ELSE LET d == MathAbs(Sub(Head(s), mean))
         IN  Add(MulS(d, d), SumSquares(Tail(s), mean))

calculateBaseParameters(historicalData, p) ==
    LET inflows == historicalData.inflows
        outflows == historicalData.outflows
        baseInflowMean == FDiv(SumSeq(inflows), Len(inflows))
        baseInflowStd ==
            MathSqrtK(FDiv(SumSquares(inflows, baseInflowMean), Len(inflows)))
        baseOutflowMean == FDiv(SumSeq(outflows), Len(outflows))
        baseOutflowStd ==
            MathSqrtK(FDiv(SumSquares(outflows, baseOutflowMean), Len(outflows)))
        growthRateMean == OrElse(p.customVariables.growthRateMean, 50)
        growthRateStd == OrElse(p.customVariables.growthRateStd, 20)
    IN  [baseInflowMean  |-> OrElse(p.customVariables.baseInflowMean, baseInflowMean),
         baseInflowStd   |-> OrElse(p.customVariables.baseInflowStd, baseInflowStd),
         baseOutflowMean |-> OrElse(p.customVariables.baseOutflowMean, baseOutflowMean),
         baseOutflowStd  |-> OrElse(p.customVariables.baseOutflowStd, baseOutflowStd),
         growthRate      |-> [mean |-> growthRateMean, std |-> growthRateStd],
         seasonality     |-> [inflow |-> SeasonalityInflow, outflow |-> SeasonalityOutflow],
         startingBalance |-> StartingBalance]

(***************************************************************************)
(* runSingleSimulation: its locals, one iteration of its loop, its result  *)
(***************************************************************************)
\* A faulty variant of InitialLocals: the balance starts from zero.
InitialLocals_FromZero(baseParams) ==
    [monthlyResults    |-> << >>,
     cumulativeBalance |-> 0,
     minBalance        |-> baseParams.startingBalance,
     maxBalance        |-> baseParams.startingBalance,
     runwayMonths      |-> Null]

\* Lines 133-137: the locals before the first month.
InitialLocals(baseParams) ==
    [monthlyResults    |-> << >>,
     cumulativeBalance |-> baseParams.startingBalance,
     minBalance        |-> baseParams.startingBalance,
     maxBalance        |-> baseParams.startingBalance,
     runwayMonths      |-> Null]

\* A faulty variant of RunwayAtCrossing: the month of the crossing itself.
RunwayAtCrossing_CrossingMonth(month) == month

\* The month recorded as the runway when the balance first goes negative in
\* loop month `month`.
RunwayAtCrossing(month) == month - 1

\* A faulty variant of RecordsRunway: every month below zero records the runway.
RecordsRunway_EveryNegativeMonth(balance, runway) == Lt(balance, 0)

\* Whether the runway is recorded in this iteration.
RecordsRunway(balance, runway) == Lt(balance, 0) /\ runway = Null

\* Lines 139-173: the loop body for `month` at clock `clock`, drawing from
\* source r: the locals and the source after it.
MonthBody(l, month, clock, baseParams, scenario, r) ==
    LET date == clock + month
        inflow == generateRandomInflow(month, clock, baseParams, scenario, r)
        outflow == generateRandomOutflow(month, clock, baseParams, scenario, inflow.rng)
        netFlow == Sub(inflow.value, outflow.value)
        balance == Add(l.cumulativeBalance, netFlow)
    IN  [locals |->
            [monthlyResults |->
                 Append(l.monthlyResults,
                        [month |-> month, inflow |-> inflow.value,
                         outflow |-> outflow.value, netFlow |-> netFlow,
                         cumulativeBalance |-> balance, date |-> date]),
             cumulativeBalance |-> balance,
             minBalance |-> MathMin(l.minBalance, balance),
             maxBalance |-> MathMax(l.maxBalance, balance),
             runwayMonths |->
                 IF RecordsRunway(balance, l.runwayMonths)
                 THEN Some(RunwayAtCrossing(month))
                 ELSE l.runwayMonths],
         rng |-> outflow.rng]

\* Lines 143-152 under each scenario in turn: the inflow and the outflow the
\* month's draws from source r give.
ScenarioFlows(month, clock, baseParams, r) ==
    [s \in ScenarioType |->
        LET inflow == generateRandomInflow(month, clock, baseParams, s, r)
            outflow == generateRandomOutflow(month, clock, baseParams, s, inflow.rng)
        IN  [inflow |-> inflow.value, outflow |-> outflow.value]]

NoFlows == [s \in ScenarioType |-> [inflow |-> 0, outflow |-> 0]]

RECURSIVE SumAbsNetFlow(_)
SumAbsNetFlow(rs) ==
    IF rs = << >> THEN 0 ELSE Add(MathAbs(Head(rs).netFlow), SumAbsNetFlow(Tail(rs)))

\* A faulty variant of FinalRunway: the burn is averaged over every month.
FinalRunway_AverageOverAllMonths(l) ==
    IF l.runwayMonths # Null THEN l.runwayMonths
    ELSE LET burning == SelectSeq(l.monthlyResults, LAMBDA r : Lt(r.netFlow, 0))
             avgBurn ==
                 NumOrElse(FDiv(SumAbsNetFlow(burning), Len(l.monthlyResults)), 0)
         IN  IF Gt(avgBurn, 0)
             THEN Some(FDiv(l.monthlyResults[Len(l.monthlyResults)].cumulativeBalance,
                            avgBurn))
             ELSE Null

\* Lines 176-189: the runway after the loop.
FinalRunway(l) ==
    IF l.runwayMonths # Null THEN l.runwayMonths
    ELSE LET burning == SelectSeq(l.monthlyResults, LAMBDA r : Lt(r.netFlow, 0))
             avgBurn == NumOrElse(FDiv(SumAbsNetFlow(burning), Len(burning)), 0)
         IN  IF Gt(avgBurn, 0)
             THEN Some(FDiv(l.monthlyResults[Len(l.monthlyResults)].cumulativeBalance,
                            avgBurn))
             ELSE Null

\* A faulty variant of NegativeIndicator: the indicator of a negative final balance.
NegativeIndicator_OfFinalBalance(l) == IF Lt(l.cumulativeBalance, 0) THEN 1 ELSE 0

\* The indicator of a run that went negative.
NegativeIndicator(l) == IF Lt(l.minBalance, 0) THEN 1 ELSE 0

\* Lines 191-199: the SimulationRun returned.
RunResult(n, l) ==
    [runNumber |-> n,
     monthlyResults |-> l.monthlyResults,
     finalBalance |-> l.cumulativeBalance,
     minBalance |-> l.minBalance,
     maxBalance |-> l.maxBalance,
     probabilityNegative |-> NegativeIndicator(l),
     runwayMonths |-> FinalRunway(l)]

(***************************************************************************)
(* calculateStatistics and performSensitivityAnalysis                      *)
(***************************************************************************)
RECURSIVE SumOver(_, _, _)
\* s[lo] + ... + s[hi]
SumOver(s, lo, hi) ==
    IF lo > hi THEN 0
    ELSE IF lo = hi THEN s[lo]
    ELSE LET mid == (lo + hi) \div 2
         IN  SumOver(s, lo, mid) + SumOver(s, mid + 1, hi)

\* reduce(sum) / length, rounded down to the unit: NaN for an empty array
\* (0 / 0) and for an array that holds NaN.
MeanSeq(s) ==
    LET n == Len(s)
    IN  IF n = 0 \/ \E k \in 1..n : IsNaN(s[k]) THEN NaN
        ELSE SumOver([k \in 1..n |-> s[k] \div n], 1, n)
             + SumOver([k \in 1..n |-> s[k] % n], 1, n) \div n

\* s.sort((a, b) => a - b)[k] for a 0-based index k inside the array: the
\* order statistic of rank k.  An array that holds NaN holds nothing else here
\* (every run of a simulation shares its base parameters).
SortedAt(s, k) ==
    IF \E j \in 1..Len(s) : IsNaN(s[j]) THEN NaN
    ELSE CHOOSE x \in {s[j] : j \in 1..Len(s)} :
             /\ Cardinality({j \in 1..Len(s) : s[j] < x}) <= k
             /\ k < Cardinality({j \in 1..Len(s) : s[j] <= x})

\* The runs counted by the aggregate probabilityNegative.
CountsAsNegative(r) == Lt(r.minBalance, 0)

\* runs.filter(counted).length / runs.length, kept as the exact quotient.
NegativeShare(rs) ==
    [num |-> Cardinality({k \in 1..Len(rs) : CountsAsNegative(rs[k])}),
     den |-> Len(rs)]

RECURSIVE MinOf(_, _, _)
MinOf(s, lo, hi) ==
    IF lo = hi THEN s[lo]
    ELSE LET mid == (lo + hi) \div 2
         IN  MathMin(MinOf(s, lo, mid), MinOf(s, mid + 1, hi))

RECURSIVE MaxOf(_, _, _)
MaxOf(s, lo, hi) ==
    IF lo = hi THEN s[lo]
    ELSE LET mid == (lo + hi) \div 2
         IN  MathMax(MaxOf(s, lo, mid), MaxOf(s, mid + 1, hi))

calculateStatistics(rs) ==
    LET finalBalances == [k \in 1..Len(rs) |-> rs[k].finalBalance]
        n == Len(finalBalances)
        withRunway == SelectSeq(rs, LAMBDA r : r.runwayMonths # Null)
        runways == [k \in 1..Len(withRunway) |-> withRunway[k].runwayMonths[1]]
    IN  [meanFinalBalance   |-> MeanSeq(finalBalances),
         medianFinalBalance |-> SortedAt(finalBalances, n \div 2),
         percentile5        |-> SortedAt(finalBalances, MulS(n, 50)),
         percentile95       |-> SortedAt(finalBalances, MulS(n, 950)),
         probabilityNegative |-> NegativeShare(rs),
         averageRunway   |-> IF Len(runways) > 0 THEN MeanSeq(runways) ELSE 0,
         worstCaseRunway |-> IF Len(runways) > 0 THEN MinOf(runways, 1, Len(runways)) ELSE 0,
         bestCaseRunway  |-> IF Len(runways) > 0 THEN MaxOf(runways, 1, Len(runways)) ELSE 0]

NoStatistics ==
    [meanFinalBalance |-> 0, medianFinalBalance |-> 0, percentile5 |-> 0,
     percentile95 |-> 0, probabilityNegative |-> [num |-> 0, den |-> 0],
     averageRunway |-> 0, worstCaseRunway |-> 0, bestCaseRunway |-> 0]

\* The fixed coefficients, in thousandths.
performSensitivityAnalysis(rs, baseParams, p) ==
    [inflowImpact |-> 800, outflowImpact |-> -700, growthImpact |-> 900,
     seasonalityImpact |-> 300]

(***************************************************************************)
(* saveSimulationResults: the rows and their batches                       *)
(***************************************************************************)
\* Lines 434-453: the row written for run r.
ResultRow(id, p, r) ==
    [simulationId |-> id,
     runNumber |-> r.runNumber,
     scenario |-> p.scenario,
     timeHorizon |-> p.timeHorizon,
     numRuns |-> p.numRuns,
     monthlyResults |->
         [t \in 1..Len(r.monthlyResults) |->
             [r.monthlyResults[t] EXCEPT !.date = ToISOString(@)]],
     finalBalance |-> r.finalBalance,
     minBalance |-> r.minBalance,
     maxBalance |-> r.maxBalance,
     probabilityNegative |-> r.probabilityNegative,
     runwayMonths |-> r.runwayMonths]

\* A faulty variant of BatchLast: the batch is the rest of the results.
BatchLast_Rest(k, n) == n

\* results.slice(k, k + 50) as the 1-based positions it covers.
BatchLast(k, n) == IF k + BatchSize < n THEN k + BatchSize ELSE n

\* The loop's step: i += 50.
NextBatchStart(k) == k + BatchSize

(***************************************************************************)
(* MLForecasting.  A forecast amount is held in hundredths of a currency   *)
(* unit, so that a prediction that is not a whole number (the ARIMA        *)
(* variant's) differs from its rounding; confidences are in thousandths.   *)
(***************************************************************************)
ForecastModel == {"PROPHET", "ARIMA", "REGRESSION", "LSTM", "ENSEMBLE"}

ForecastHistoryMonths == 24

Cent == 10 * 10

\* Math.round of an amount held in hundredths: floor(x + 0.5).
MathRound(x) == IF IsNaN(x) THEN NaN ELSE ((x + Cent \div 2) \div Cent) * Cent

\* num / den in hundredths, rounded down, for den > 0.
DivC(num, den) == (num \div den) * Cent + ((num % den) * Cent) \div den

RECURSIVE NetByMonth(_, _)
\* transactions.forEach(...) over the Map monthlyNetFlow.
NetByMonth(transactions, monthlyNetFlow) ==
    IF transactions = << >> THEN monthlyNetFlow
    ELSE LET t == Head(transactions)
             monthKey == t.transactionDate
             withKey ==
                 IF KeyIndex(monthlyNetFlow, monthKey) = 0
                 THEN Append(monthlyNetFlow, [monthKey |-> monthKey, net |-> 0])
                 ELSE monthlyNetFlow
             k == KeyIndex(withKey, monthKey)
             updated ==
                 IF t.type = "INFLOW"
                 THEN [withKey EXCEPT ![k].net = @ + t.amount]
                 ELSE [withKey EXCEPT ![k].net = @ - t.amount]
         IN  NetByMonth(Tail(transactions), updated)

\* Array.from(monthlyNetFlow.values()): the net flow of each month, in units.
groupTransactionsByMonth(transactions) ==
    LET monthlyNetFlow == NetByMonth(transactions, << >>)
    IN  [k \in 1..Len(monthlyNetFlow) |-> monthlyNetFlow[k].net]

\* A faulty variant of calculateLinearTrend: a short history gives intercept 0.
calculateLinearTrend_ZeroIntercept(data) ==
    LET n == Len(data)
    IN  IF n < 2
        THEN [slope |-> 0, intercept |-> 0]
        ELSE LET sumX  == (n * (n + 1)) \div 2
                 sumY  == SumOver(data, 1, n)
                 sumXY == SumOver([k \in 1..n |-> k * data[k]], 1, n)
                 sumXX == (n * (n + 1) * (2 * n + 1)) \div 6
                 slope == DivC(n * sumXY - sumX * sumY, n * sumXX - sumX * sumX)
             IN  [slope |-> slope,
                  intercept |-> (sumY * Cent - slope * sumX) \div n]

\* The slope and the intercept of the least-squares line, in hundredths.
calculateLinearTrend(data) ==
    LET n == Len(data)
    IN  IF n < 2
        THEN [slope |-> 0,
              intercept |-> (IF n = 0 THEN 0 ELSE NumOrElse(data[1], 0)) * Cent]
        ELSE LET sumX  == (n * (n + 1)) \div 2
                 sumY  == SumOver(data, 1, n)
                 sumXY == SumOver([k \in 1..n |-> k * data[k]], 1, n)
                 sumXX == (n * (n + 1) * (2 * n + 1)) \div 6
                 slope == DivC(n * sumXY - sumX * sumY, n * sumXX - sumX * sumX)
             IN  [slope |-> slope,
                  intercept |-> (sumY * Cent - slope * sumX) \div n]

\* The sample variance of the data, in thousands of squared units.
calculateVariance(data) ==
    IF Len(data) < 2 THEN 0
    ELSE LET mean == FDiv(SumOver(data, 1, Len(data)), Len(data))
         IN  FDiv(SumSquares(data, mean), Len(data) - 1)

SeasonalFactors ==
    << 900, 950, 1100, 1000, 950, 850, 800, 850, 1000, 1150, 1300, 1200 >>

getSeasonalFactor(calendarMonth) == NumOrElse(SeasonalFactors[calendarMonth + 1], Scale)

\* scenarioMultipliers[scenario] ?? 1.0
ForecastScenarioMultiplier(scenario) ==
    CASE scenario = "OPTIMISTIC" -> 1150
      [] scenario = "BASE" -> 1000
      [] scenario = "PESSIMISTIC" -> 850
      [] scenario = "STRESS_TEST" -> 700
      [] OTHER -> 1000

\* A faulty variant of StepConfidence: the decay without its floor.
StepConfidence_NoFloor(step) == Scale - step * 50

\* Math.max(0.6, 1.0 - i * 0.05)
StepConfidence(step) == MathMax(600, Scale - step * 50)

\* The body of the loop of generateRegressionForecast for step `step`.
RegressionStep(step, clock, monthlyData, trend, multiplier, scenario) ==
    LET forecastDate == clock + step
        basePrediction == trend.slope * (Len(monthlyData) + step) + trend.intercept
        predicted == MulS(basePrediction, multiplier)
        seasonalFactor == getSeasonalFactor(forecastDate % 12)
        seasonalPredicted == MulS(predicted, seasonalFactor)
        variance == calculateVariance(monthlyData)
        confidence == StepConfidence(step)
        bounds == MulS(MulS(MathSqrtK(variance) * Cent, 1960), confidence)
    IN  [date |-> forecastDate,
         predicted |-> MathRound(seasonalPredicted),
         confidence |-> confidence,
         lowerBound |-> MathRound(seasonalPredicted - bounds),
         upperBound |-> MathRound(seasonalPredicted + bounds),
         model |-> "REGRESSION",
         scenario |-> scenario]

\* A faulty variant of ForecastSteps: the loop stops before the last step.
ForecastSteps_StopsEarly(horizon) == IF Ge(horizon, 1) THEN 1..(horizon - 1) ELSE {}

\* The steps of `for (let i = 1; i <= horizon; i++)`: none when horizon is
\* below 1 or NaN.
ForecastSteps(horizon) == IF Ge(horizon, 1) THEN 1..horizon ELSE {}

generateRegressionForecast(p, clock) ==
    LET endDate == clock
        startDate == clock - ForecastHistoryMonths
        transactions ==
            FindTransactions(CashTransactionTable(clock), startDate, endDate, p.segmentId)
        monthlyData == groupTransactionsByMonth(transactions)
        trend == calculateLinearTrend(monthlyData)
        multiplier == ForecastScenarioMultiplier(p.scenario)
    IN  [step \in ForecastSteps(p.horizon) |->
            RegressionStep(step, clock, monthlyData, trend, multiplier, p.scenario)]

\* Math.sin(k / 3) in thousandths, k = 0..39.
SinThird ==
    << 0, 327, 618, 841, 972, 995, 909, 723, 457, 141,
       -191, -501, -757, -929, -999, -959, -813, -578, -279, 50,
       374, 657, 867, 983, 989, 887, 688, 412, 91, -240,
       -544, -789, -946, -1000, -943, -783, -537, -231, 100, 420 >>

\* Math.sin((k * 2 * Math.PI) / 4) in thousandths.
SinQuarterTurn(k) == << 0, 1000, 0, -1000 >>[(k % 4) + 1]

\* A faulty variant of ArimaIndex: the number of the forecast step.
ArimaIndex_StepNumber(position) == position

\* The index the ARIMA map gives the result at 1-based position `position`.
ArimaIndex(position) == position - 1

generateARIMAForecast(p, clock) ==
    LET regressionResults == generateRegressionForecast([p EXCEPT !.model = "ARIMA"], clock)
    IN  [k \in 1..Len(regressionResults) |->
            [regressionResults[k] EXCEPT
                !.predicted = @ + MulS(MulS(@, 100), SinThird[ArimaIndex(k) + 1]),
                !.model = "ARIMA"]]

generateProphetForecast(p, clock) ==
    LET baseForecasts == generateRegressionForecast([p EXCEPT !.model = "PROPHET"], clock)
    IN  [k \in 1..Len(baseForecasts) |->
            LET result == baseForecasts[k]
                weeklyPattern == MulS(50, SinQuarterTurn(k - 1))
                monthlyPattern == getSeasonalFactor(result.date % 12) - Scale
                enhancedPrediction ==
                    MulS(result.predicted,
                         Scale + weeklyPattern + MulS(monthlyPattern, 200))
            IN  [result EXCEPT
                    !.predicted = MathRound(enhancedPrediction),
                    !.model = "PROPHET",
                    !.confidence = MathMin(MulS(@, 1100), 950)]]

\* A faulty variant of EnsembleWeights: the larger weight is on the regression.
EnsembleWeights_RegressionHeavy == [regression |-> 400, arima |-> 300, prophet |-> 300]

\* const weights = { regression: 0.3, arima: 0.3, prophet: 0.4 }
EnsembleWeights == [regression |-> 300, arima |-> 300, prophet |-> 400]

NoEnsemble == [regression |-> << >>, arima |-> << >>, prophet |-> << >>]

\* Lines 148-155: the three forecasts the ensemble awaits.
EnsembleParts(p, clock) ==
    [regression |-> generateRegressionForecast([p EXCEPT !.model = "REGRESSION"], clock),
     arima      |-> generateARIMAForecast([p EXCEPT !.model = "ARIMA"], clock),
     prophet    |-> generateProphetForecast([p EXCEPT !.model = "PROPHET"], clock)]

\* Lines 160-191: the body of regression.map for the 1-based position k.
EnsembleStep(parts, k, scenario) ==
    LET regression == parts.regression[k]
        arima == parts.arima[k]
        prophet == parts.prophet[k]
        combined == MulS(regression.predicted, EnsembleWeights.regression)
                    + MulS(arima.predicted, EnsembleWeights.arima)
                    + MulS(prophet.predicted, EnsembleWeights.prophet)
        avgConfidence ==
            (regression.confidence + arima.confidence + prophet.confidence) \div 3
        predictions ==
            << regression.predicted \div Cent, arima.predicted \div Cent,
               prophet.predicted \div Cent >>
        variance == FDiv(SumSquares(predictions, combined \div Cent), 3)
        bounds == MulS(MathSqrtK(variance) * Cent, 1500)
    IN  [date |-> regression.date,
         predicted |-> MathRound(combined),
         confidence |-> avgConfidence,
         lowerBound |-> MathRound(combined - bounds),
         upperBound |-> MathRound(combined + bounds),
         model |-> "ENSEMBLE",
         scenario |-> scenario]

CombineForecasts(parts, scenario) ==
    [k \in 1..Len(parts.regression) |-> EnsembleStep(parts, k, scenario)]

generateEnsembleForecast(p, clock) == CombineForecasts(EnsembleParts(p, clock), p.scenario)

(***************************************************************************)
(* State                                                                   *)
(***************************************************************************)
VARIABLES
    now,                \* the wall clock, a month index
    request,            \* the JSON body of the POST /api/simulation request
    response,           \* the response of the route, status 0 while there is none
    pc,                 \* where the request's handling stands
    params,             \* SimulationParameters built by the route
    simulationId,       \* the identifier generated by runSimulation
    rng,                \* the random source behind Math.random()
    baseParameters,     \* BaseParameters of the simulation
    runNumber,          \* runSimulation's loop variable
    runs,               \* runSimulation's runs array
    month,              \* runSingleSimulation's loop variable
    monthlyResults,     \* runSingleSimulation's locals ...
    cumulativeBalance,
    minBalance,
    maxBalance,
    runwayMonths,
    twin,               \* a second execution of the current run on the same draws,
                        \* at another wall clock and with another run number, and
                        \* the flows of its last month under each scenario
    statistics,
    sensitivityAnalysis,
    i,                  \* saveSimulationResults' loop variable
    dbLog,              \* every call made to the data store, in the order issued
    simulationResult    \* the rows of the simulationResult table

VARIABLES
    forecastRequest,    \* the request to /api/forecasts
    forecastResponse,   \* its response, status 0 while there is none
    forecastPc,         \* where its handling stands
    forecastParams,     \* the ForecastParameters built by the route
    forecasts,          \* the ForecastResult array MLForecasting returned
    ensemble,           \* the three forecasts generateEnsembleForecast awaited
    storedForecasts,    \* GET: the stored forecasts read for comparison
    cashFlowForecast    \* the rows of the cashFlowForecast table

forecastVars ==
    << forecastRequest, forecastResponse, forecastPc, forecastParams, forecasts,
       ensemble, storedForecasts, cashFlowForecast >>

simulationVars ==
    << request, response, pc, params, simulationId, rng, baseParameters,
       runNumber, runs, month, monthlyResults, cumulativeBalance, minBalance,
       maxBalance, runwayMonths, twin, statistics, sensitivityAnalysis, i,
       simulationResult >>

VARIABLES
    businessRecommendation, \* the rows of the businessRecommendation table
    recommendationsPanel,   \* the state of each RecommendationsPanel instance
    recommendationCalls,    \* the calls to /api/recommendations, by stage
    dashboardPanel,         \* the state of a panel that refetches on its filters
    panelCalls              \* the calls the panel has made, in the order issued

clientVars ==
    << businessRecommendation, recommendationsPanel, recommendationCalls,
       dashboardPanel, panelCalls >>

vars == << now, dbLog, simulationVars, forecastVars, clientVars >>

runVars ==
    << month, monthlyResults, cumulativeBalance, minBalance, maxBalance,
       runwayMonths, twin >>

engineVars ==
    << simulationId, baseParameters, runNumber, runs, statistics,
       sensitivityAnalysis, i >>

\* The locals of the run in progress.
Locals ==
    [monthlyResults |-> monthlyResults, cumulativeBalance |-> cumulativeBalance,
     minBalance |-> minBalance, maxBalance |-> maxBalance,
     runwayMonths |-> runwayMonths]

\* The twin runs later, as a later run of its simulation.
TwinClock(clock) == clock + 5

TwinRunNumber(n) == n + 1

(***************************************************************************)
(* Inputs                                                                  *)
(***************************************************************************)
Body(numRuns, timeHorizon, scenario, segmentId, customVariables) ==
    [numRuns |-> numRuns, timeHorizon |-> timeHorizon, scenario |-> scenario,
     segmentId |-> segmentId, customVariables |-> customVariables]

\* Overrides under which the balance crosses zero within a few months.
StressCustom ==
    [NoCustomVariables EXCEPT !.baseInflowMean = Some(300000),
                              !.baseInflowStd = Some(200000),
                              !.baseOutflowMean = Some(600000),
                              !.baseOutflowStd = Some(200000)]

\* Overrides with a wide growth rate (1 + rate may be negative), a zero and a
\* missing standard deviation.
WildCustom ==
    [NoCustomVariables EXCEPT !.baseInflowMean = Some(400000),
                              !.baseInflowStd = Some(0),
                              !.baseOutflowMean = Some(700000),
                              !.growthRateMean = Some(100),
                              !.growthRateStd = Some(1000)]

\* Overrides under which inflow and outflow are of one size and vary widely.
EvenCustom ==
    [NoCustomVariables EXCEPT !.baseInflowMean = Some(500000),
                              !.baseInflowStd = Some(300000),
                              !.baseOutflowMean = Some(520000),
                              !.baseOutflowStd = Some(300000)]

\* Random sources a month of a run may meet: all draws at the mean (with a 0
\* to resample), low inflow and high outflow, high inflow and low outflow,
\* low growth, and a source whose period is not a month's.
SeedCycles ==
    { << 0, 3, 3 >>,
      << 3, 3, 3, 3, 1, 6, 3, 3, 3, 3, 1, 1 >>,
      << 3, 3, 3, 3, 1, 1, 3, 3, 3, 3, 1, 6 >>,
      << 1, 6, 6, 2, 6, 2, 1, 1, 6, 4, 6, 4 >>,
      << 6, 0, 4, 2, 11, 7, 5 >> }

Seeds == { [cycle |-> c, pos |-> 0] : c \in SeedCycles }

\* Requests whose first run is explored under every source (SpecRun).
RunBodies ==
    { Body(Some(MinRuns), Some(h), Some(s), Some(g), c) :
        h \in 1..MaxHorizon, s \in ScenarioType, g \in {"north", "dormant"},
        c \in {Null, Some(StressCustom), Some(WildCustom)} }
    \cup { Body(Some(MinRuns - 1), Some(1), Null, Null, Null),
           Body(Some(MinRuns), Some(MaxTimeHorizon + 1), Null, Null, Null) }

(***************************************************************************)
(* The recommendations and the panels that show them.  A call to           *)
(* /api/recommendations is in stage "request" until the route has handled  *)
(* it and in stage "response" until the panel's await resumes.             *)
(***************************************************************************)
\* The browser sessions that render a RecommendationsPanel.
Clients == {"first", "second"}

RecommendationIds == {"rec-1"}

RecommendationStatus == {"PENDING", "IN_PROGRESS", "IMPLEMENTED", "DISMISSED"}

\* The values of the panel's status filter that are selected here: the
\* initial one and the one that lists every recommendation.
StatusFilters == {"PENDING", "all"}

\* The rows of businessRecommendation: a recommendation that nobody has acted on.
BusinessRecommendationTable ==
    [id \in RecommendationIds |-> [status |-> "PENDING", implementedAt |-> Null]]

\* The useState values of a panel before its first effect.
UnmountedRecommendationsPanel ==
    [mounted |-> FALSE, recommendations |-> {}, statusFilter |-> "PENDING",
     actions |-> 0]

\* The user's actions on the panels of a behaviour.
MaxPanelActions == 4

PanelActions(panels) ==
    LET Sum[cs \in SUBSET Clients] ==
            IF cs = {} THEN 0
            ELSE LET c == CHOOSE x \in cs : TRUE
                 IN  panels[c].actions + Sum[cs \ {c}]
    IN  Sum[Clients]

\* A call of a panel; two calls of one panel that are alike in everything are
\* one call here.
RecommendationCall(c, method, id, status, statusFilter) ==
    [client |-> c, method |-> method, recommendationId |-> id,
     status |-> status, statusFilter |-> statusFilter, stage |-> "request",
     ok |-> FALSE, recommendations |-> {}]

\* fetchRecommendations up to its await: the GET with the status filter of
\* the render that created the callback.
FetchRecommendationsCall(c, statusFilter) ==
    RecommendationCall(c, "GET", "", "", statusFilter)

\* The status each button shown for a recommendation of status s sends.
ButtonsFor(s) ==
    CASE s = "PENDING" -> {"IN_PROGRESS", "DISMISSED"}
      [] s = "IN_PROGRESS" -> {"IMPLEMENTED"}
      [] OTHER -> {}

\* GET: findMany with the status filter, mapped to the response's rows.
FindRecommendations(table, statusFilter) ==
    { [id |-> id, status |-> table[id].status, implementedAt |-> table[id].implementedAt] :
        id \in {x \in RecommendationIds :
                    statusFilter = "all" \/ table[x].status = statusFilter} }

\* PATCH: the data of prisma.businessRecommendation.update.
UpdatedRecommendation(status, clock) ==
    [status |-> status,
     implementedAt |-> IF status = "IMPLEMENTED" THEN Some(clock) ELSE Null]

(***************************************************************************)
(* The dashboard panels that refetch when a filter changes.                *)
(***************************************************************************)
PanelComponents == {"KPIOverview", "ForecastingPanel"}

\* The filter values a component's fetch depends on, before any change.
InitialFilters(component) ==
    IF component = "KPIOverview"
    THEN [segmentId |-> Null, model |-> "", scenario |-> "", horizon |-> 0]
    ELSE [segmentId |-> Null, model |-> "ENSEMBLE", scenario |-> "BASE", horizon |-> 12]

\* The values a user can select for a component's filters.
SelectableFilters(component) ==
    IF component = "KPIOverview"
    THEN { [segmentId |-> s, model |-> "", scenario |-> "", horizon |-> 0] :
             s \in {Null, Some("north"), Some("south")} }
    ELSE { [segmentId |-> s, model |-> m, scenario |-> "BASE", horizon |-> h] :
             s \in {Null, Some("north")}, m \in {"ENSEMBLE", "PROPHET"},
             h \in {6, 12} }

\* Nothing is rendered yet.
UnmountedPanel(component) ==
    [component |-> component, mounted |-> FALSE, filters |-> InitialFilters(component),
     displayed |-> Null, changes |-> 0]

\* The filter changes of a behaviour.
MaxFilterChanges == 2

\* fetchKPIData / fetchForecasts up to the await of fetch.
PanelCall(filters) ==
    [filters |-> filters, stage |-> "request", ok |-> FALSE, arrival |-> 0]

(***************************************************************************)
(* Initial state: a request has arrived and nothing has run.               *)
(***************************************************************************)
NoResponse == [status |-> 0, success |-> FALSE, error |-> "", data |-> Null]

NoParams ==
    [numRuns |-> 0, timeHorizon |-> 0, scenario |-> "BASE", segmentId |-> Null,
     customVariables |-> NoCustomVariables]

NoBaseParameters ==
    [baseInflowMean |-> 0, baseInflowStd |-> 0, baseOutflowMean |-> 0,
     baseOutflowStd |-> 0, growthRate |-> [mean |-> 0, std |-> 0],
     seasonality |-> [inflow |-> SeasonalityInflow, outflow |-> SeasonalityOutflow],
     startingBalance |-> 0]

NoLocals ==
    [monthlyResults |-> << >>, cumulativeBalance |-> 0, minBalance |-> 0,
     maxBalance |-> 0, runwayMonths |-> Null]

NoSensitivity ==
    [inflowImpact |-> 0, outflowImpact |-> 0, growthImpact |-> 0,
     seasonalityImpact |-> 0]

NoTwin ==
    [clock |-> 0, runNumber |-> 0, locals |-> NoLocals, result |-> Null,
     flows |-> NoFlows]

\* The rows of cashFlowForecast before the request: a forecast of next month
\* and two of last month whose actual amounts are known.
ForecastRow(id, date, predicted, actual, modelType, scenario, segment) ==
    [id |-> id, forecastDate |-> date, predictedAmount |-> predicted,
     actualAmount |-> actual, confidence |-> 900,
     lowerBound |-> predicted - 20000, upperBound |-> predicted + 20000,
     modelType |-> modelType, scenario |-> scenario, businessSegmentId |-> segment]

CashFlowForecastTable(clock) ==
    << ForecastRow(1, clock + 1, 150000, Null, "ARIMA", "BASE", Null),
       ForecastRow(2, clock - 1, 110000, Some(100000), "ARIMA", "BASE", Null),
       ForecastRow(3, clock - 1, 90000, Some(120000), "PROPHET", "BASE", Some("north")) >>

\* A request carries its horizon as text in the query string (GET) or as a
\* number in the body (POST).
NoForecastRequest ==
    [method |-> "NONE", horizonText |-> << >>, horizon |-> Null, model |-> Null,
     scenario |-> Null, segmentId |-> Null]

NoForecastParams ==
    [horizon |-> 0, model |-> "ENSEMBLE", scenario |-> "BASE", segmentId |-> Null]

InitWith(bodies, sources, forecastRequests) ==
    /\ forecastRequest \in forecastRequests
    /\ forecastResponse = NoResponse
    /\ forecastPc = "request"
    /\ forecastParams = NoForecastParams
    /\ forecasts = << >>
    /\ ensemble = NoEnsemble
    /\ storedForecasts = << >>
    /\ cashFlowForecast = CashFlowForecastTable(30)
    /\ now = 30
    /\ request \in bodies
    /\ rng \in sources
    /\ pc = "request"
    /\ response = NoResponse
    /\ params = NoParams
    /\ simulationId = << >>
    /\ baseParameters = NoBaseParameters
    /\ runNumber = 0
    /\ runs = << >>
    /\ month = 0
    /\ monthlyResults = << >>
    /\ cumulativeBalance = 0
    /\ minBalance = 0
    /\ maxBalance = 0
    /\ runwayMonths = Null
    /\ twin = NoTwin
    /\ statistics = NoStatistics
    /\ sensitivityAnalysis = NoSensitivity
    /\ i = 0
    /\ dbLog = << >>
    /\ simulationResult = << >>
    /\ businessRecommendation = BusinessRecommendationTable
    /\ recommendationsPanel = [c \in Clients |-> UnmountedRecommendationsPanel]
    /\ recommendationCalls = {}
    /\ dashboardPanel = UnmountedPanel("KPIOverview")
    /\ panelCalls = << >>

(***************************************************************************)
(* POST /api/simulation                                                    *)
(***************************************************************************)
\* Lines 11-17 of the route: the parameters built from the body.
BuildParams(body) ==
    [numRuns |-> OrElse(body.numRuns, DefaultRuns),
     timeHorizon |-> OrElse(body.timeHorizon, DefaultTimeHorizon),
     scenario |-> IF body.scenario = Null THEN "BASE" ELSE body.scenario[1],
     segmentId |-> body.segmentId,
     customVariables |->
         IF body.customVariables = Null THEN NoCustomVariables
         ELSE body.customVariables[1]]

\* A faulty variant of NumRunsRejected: the bounds themselves are rejected.
NumRunsRejected_AtBounds(p) == Le(p.numRuns, MinRuns) \/ Ge(p.numRuns, MaxRuns)

\* The route's two validations.
NumRunsRejected(p) == Lt(p.numRuns, MinRuns) \/ Gt(p.numRuns, MaxRuns)

TimeHorizonRejected(p) ==
    Lt(p.timeHorizon, MinTimeHorizon) \/ Gt(p.timeHorizon, MaxTimeHorizon)

BadRequest(message) ==
    [status |-> 400, success |-> FALSE, error |-> message, data |-> Null]

\* A faulty variant of CaughtFailure: the answer carries the identifier of the
\* simulation that failed.
CaughtFailure_WithSimulationId ==
    [status |-> 200, success |-> FALSE,
     error |-> "Failed to run Monte Carlo simulation",
     data |-> Some([simulationId |-> simulationId])]

\* The catch block of the route: no status is given, so the response is a 200.
CaughtFailure ==
    [status |-> 200, success |-> FALSE,
     error |-> "Failed to run Monte Carlo simulation", data |-> Null]

DbCall(op, first, last) ==
    [op |-> op, first |-> first, last |-> last, status |-> "pending"]

\* The log with its last call settled.
Settled(log, status) == [log EXCEPT ![Len(log)].status = status]

\* The handler up to its first await: it answers 400, or runSimulation is
\* invoked, generates the identifier and issues the historical query.
PostSimulation ==
    /\ pc = "request"
    /\ LET p == BuildParams(request)
       IN  /\ params' = p
           /\ \/ /\ NumRunsRejected(p)
                 /\ response' = BadRequest("Number of runs must be between 100 and 2000")
                 /\ pc' = "done"
                 /\ UNCHANGED << simulationId, rng, dbLog >>
              \/ /\ ~NumRunsRejected(p)
                 /\ TimeHorizonRejected(p)
                 /\ response' = BadRequest("Time horizon must be between 1 and 36 months")
                 /\ pc' = "done"
                 /\ UNCHANGED << simulationId, rng, dbLog >>
              \/ /\ ~NumRunsRejected(p)
                 /\ ~TimeHorizonRejected(p)
                 /\ simulationId' = << now, MathRandom(rng) >>
                 /\ rng' = Advance(rng)
                 /\ dbLog' = Append(dbLog, DbCall("findMany", 0, 0))
                 /\ pc' = "query"
                 /\ UNCHANGED response
    /\ UNCHANGED << now, clientVars, forecastVars, request, baseParameters, runNumber, runs, statistics,
                    sensitivityAnalysis, i, simulationResult >>
    /\ UNCHANGED runVars

(***************************************************************************)
(* MonteCarloEngine.runSimulation                                          *)
(***************************************************************************)
\* The historical query answers: base parameters, then the loop over runs.
QueryReturns ==
    /\ pc = "query"
    /\ dbLog' = Settled(dbLog, "ok")
    /\ baseParameters' =
           calculateBaseParameters(getHistoricalData(params.segmentId, now), params)
    /\ runs' = << >>
    /\ runNumber' = 1
    /\ pc' = "loop"
    /\ UNCHANGED << now, clientVars, forecastVars, request, response, params, simulationId, rng, statistics,
                    sensitivityAnalysis, i, simulationResult >>
    /\ UNCHANGED runVars

\* The historical query fails: the error reaches the route's catch block.
QueryFails ==
    /\ pc = "query"
    /\ dbLog' = Settled(dbLog, "failed")
    /\ response' = CaughtFailure
    /\ pc' = "done"
    /\ UNCHANGED << now, clientVars, forecastVars, request, params, rng, simulationResult >>
    /\ UNCHANGED engineVars
    /\ UNCHANGED runVars

\* runSingleSimulation is entered for run runNumber.
StartRun ==
    /\ pc = "loop"
    /\ runNumber <= params.numRuns
    /\ LET l == InitialLocals(baseParameters)
       IN  /\ monthlyResults' = l.monthlyResults
           /\ cumulativeBalance' = l.cumulativeBalance
           /\ minBalance' = l.minBalance
           /\ maxBalance' = l.maxBalance
           /\ runwayMonths' = l.runwayMonths
           /\ twin' = [clock |-> TwinClock(now), runNumber |-> TwinRunNumber(runNumber),
                       locals |-> l, result |-> Null, flows |-> NoFlows]
    /\ month' = 1
    /\ pc' = "months"
    /\ UNCHANGED << now, clientVars, forecastVars, request, response, params, rng, dbLog, simulationResult >>
    /\ UNCHANGED engineVars

\* A faulty variant of InMonthLoop: the loop stops one month early.
InMonthLoop_Exclusive(m, timeHorizon) == m < timeHorizon

\* The condition of the loop over months: month <= params.timeHorizon.
InMonthLoop(m, timeHorizon) == m <= timeHorizon

\* One iteration of the loop over months.
MonthStep ==
    /\ pc = "months"
    /\ InMonthLoop(month, params.timeHorizon)
    /\ LET step == MonthBody(Locals, month, now, baseParameters, params.scenario, rng)
           other == MonthBody(twin.locals, month, twin.clock, baseParameters,
                              params.scenario, rng)
       IN  /\ monthlyResults' = step.locals.monthlyResults
           /\ cumulativeBalance' = step.locals.cumulativeBalance
           /\ minBalance' = step.locals.minBalance
           /\ maxBalance' = step.locals.maxBalance
           /\ runwayMonths' = step.locals.runwayMonths
           /\ rng' = step.rng
           /\ twin' = [twin EXCEPT !.locals = other.locals,
                                   !.flows = ScenarioFlows(month, now, baseParameters, rng)]
    /\ month' = month + 1
    /\ UNCHANGED << now, clientVars, forecastVars, request, response, pc, params, dbLog, simulationResult >>
    /\ UNCHANGED engineVars

\* The loop over months is done: the run is returned and pushed.
FinishRun ==
    /\ pc = "months"
    /\ ~InMonthLoop(month, params.timeHorizon)
    /\ runs' = Append(runs, RunResult(runNumber, Locals))
    /\ runwayMonths' = FinalRunway(Locals)
    /\ twin' = [twin EXCEPT !.result = Some(RunResult(twin.runNumber, twin.locals))]
    /\ runNumber' = runNumber + 1
    /\ pc' = "loop"
    /\ UNCHANGED << now, clientVars, forecastVars, request, response, params, rng, dbLog, simulationResult,
                    simulationId, baseParameters, statistics, sensitivityAnalysis, i,
                    month, monthlyResults, cumulativeBalance, minBalance, maxBalance >>

\* A faulty variant of Summarize: the loop over runs is left one run early.
Summarize_BeforeLastRun ==
    /\ pc = "loop"
    /\ runNumber >= params.numRuns
    /\ statistics' = calculateStatistics(runs)
    /\ sensitivityAnalysis' = performSensitivityAnalysis(runs, baseParameters, params)
    /\ i' = 0
    /\ pc' = "save"
    /\ UNCHANGED << now, clientVars, forecastVars, request, response, params, rng, dbLog, simulationResult,
                    simulationId, baseParameters, runNumber, runs >>
    /\ UNCHANGED runVars

\* Every run is done: the statistics, then saveSimulationResults is entered.
Summarize ==
    /\ pc = "loop"
    /\ runNumber > params.numRuns
    /\ statistics' = calculateStatistics(runs)
    /\ sensitivityAnalysis' = performSensitivityAnalysis(runs, baseParameters, params)
    /\ i' = 0
    /\ pc' = "save"
    /\ UNCHANGED << now, clientVars, forecastVars, request, response, params, rng, dbLog, simulationResult,
                    simulationId, baseParameters, runNumber, runs >>
    /\ UNCHANGED runVars

\* createMany is called with the next batch.
IssueBatch ==
    /\ pc = "save"
    /\ i < Len(runs)
    /\ dbLog' = Append(dbLog, DbCall("createMany", i + 1, BatchLast(i, Len(runs))))
    /\ pc' = "saving"
    /\ UNCHANGED << now, clientVars, forecastVars, request, response, params, rng, simulationResult >>
    /\ UNCHANGED engineVars
    /\ UNCHANGED runVars

\* A faulty variant of BatchCommits: only the first record of the batch is
\* written.
BatchCommits_FirstRecordOnly ==
    /\ pc = "saving"
    /\ LET call == dbLog[Len(dbLog)]
       IN  simulationResult' =
               Append(simulationResult, ResultRow(simulationId, params, runs[call.first]))
    /\ dbLog' = Settled(dbLog, "ok")
    /\ i' = NextBatchStart(i)
    /\ pc' = "save"
    /\ UNCHANGED << now, clientVars, forecastVars, request, response, params, rng, simulationId,
                    baseParameters, runNumber, runs, statistics, sensitivityAnalysis >>
    /\ UNCHANGED runVars

\* The batch in flight is written, whole.
BatchCommits ==
    /\ pc = "saving"
    /\ LET call == dbLog[Len(dbLog)]
       IN  simulationResult' =
               simulationResult \o
               [k \in 1..(call.last - call.first + 1) |->
                   ResultRow(simulationId, params, runs[call.first + k - 1])]
    /\ dbLog' = Settled(dbLog, "ok")
    /\ i' = NextBatchStart(i)
    /\ pc' = "save"
    /\ UNCHANGED << now, clientVars, forecastVars, request, response, params, rng, simulationId,
                    baseParameters, runNumber, runs, statistics, sensitivityAnalysis >>
    /\ UNCHANGED runVars

\* A faulty variant of BatchFails: the failure is swallowed and the loop goes on.
BatchFails_Swallowed ==
    /\ pc = "saving"
    /\ dbLog' = Settled(dbLog, "failed")
    /\ i' = i + BatchSize
    /\ pc' = "save"
    /\ UNCHANGED << now, clientVars, forecastVars, request, response, params, rng, simulationResult,
                    simulationId, baseParameters, runNumber, runs, statistics,
                    sensitivityAnalysis >>
    /\ UNCHANGED runVars

\* The batch in flight fails, nothing of it is written, and the error
\* reaches the route's catch block.
BatchFails ==
    /\ pc = "saving"
    /\ dbLog' = Settled(dbLog, "failed")
    /\ response' = CaughtFailure
    /\ pc' = "done"
    /\ UNCHANGED << now, clientVars, forecastVars, request, params, rng, simulationResult >>
    /\ UNCHANGED engineVars
    /\ UNCHANGED runVars

FirstRuns(rs, n) == SubSeq(rs, 1, IF Len(rs) < n THEN Len(rs) ELSE n)

\* Every batch is written: runSimulation returns and the route answers.
Respond ==
    /\ pc = "save"
    /\ i >= Len(runs)
    /\ response' =
           [status |-> 200, success |-> TRUE, error |-> "",
            data |-> Some([simulationId |-> simulationId,
                           parameters |-> params,
                           statistics |-> statistics,
                           sensitivityAnalysis |-> sensitivityAnalysis,
                           sampleRuns |-> FirstRuns(runs, 10),
                           totalRuns |-> Len(runs)])]
    /\ pc' = "done"
    /\ UNCHANGED << now, clientVars, forecastVars, request, params, rng, dbLog, simulationResult >>
    /\ UNCHANGED engineVars
    /\ UNCHANGED runVars

\* The random source is in any state when a month begins.
Reseed ==
    /\ pc = "months"
    /\ InMonthLoop(month, params.timeHorizon)
    /\ \E r \in Seeds : rng' = r
    /\ UNCHANGED << now, clientVars, forecastVars, request, response, pc, params, dbLog, simulationResult >>
    /\ UNCHANGED engineVars
    /\ UNCHANGED runVars

\* runSingleSimulation is entered for the first run.
StartFirstRun == runNumber = 1 /\ StartRun

(***************************************************************************)
(* GET and POST /api/forecasts                                             *)
(***************************************************************************)
IsDigit(c) == c \in {"0", "1", "2", "3", "4", "5", "6", "7", "8", "9"}

DigitValue(c) ==
    CASE c = "0" -> 0 [] c = "1" -> 1 [] c = "2" -> 2 [] c = "3" -> 3 [] c = "4" -> 4
      [] c = "5" -> 5 [] c = "6" -> 6 [] c = "7" -> 7 [] c = "8" -> 8 [] c = "9" -> 9

RECURSIVE LeadingNumber(_, _)
\* The number written by the digits the text begins with.
LeadingNumber(text, acc) ==
    IF text = << >> \/ ~IsDigit(Head(text)) THEN acc
    ELSE LeadingNumber(Tail(text), acc * 10 + DigitValue(Head(text)))

\* parseInt of a text, a sequence of characters: an optional sign, then the
\* digits up to the first other character; NaN when there is no digit.
parseInt(text) ==
    LET negative == text # << >> /\ Head(text) = "-"
        digits == IF negative THEN Tail(text) ELSE text
    IN  IF digits = << >> \/ ~IsDigit(Head(digits)) THEN NaN
        ELSE IF negative THEN 0 - LeadingNumber(digits, 0)
        ELSE LeadingNumber(digits, 0)

\* Lines 14-28 of the route: the parameters read from the query string.  An
\* absent parameter and an empty one are both falsy.
GetForecastParams(req) ==
    [horizon |-> parseInt(IF req.horizonText = << >> THEN << "1", "2" >>
                          ELSE req.horizonText),
     model |-> IF req.model = Null THEN "ENSEMBLE" ELSE req.model[1],
     scenario |-> IF req.scenario = Null THEN "BASE" ELSE req.scenario[1],
     segmentId |-> req.segmentId]

DefaultForecastHorizon == 12

\* Lines 148-167 of the route: the parameters destructured from the body.
PostForecastParams(req) ==
    [horizon |-> IF req.horizon = Null THEN DefaultForecastHorizon ELSE req.horizon[1],
     model |-> IF req.model = Null THEN "ENSEMBLE" ELSE req.model[1],
     scenario |-> IF req.scenario = Null THEN "BASE" ELSE req.scenario[1],
     segmentId |-> req.segmentId]

\* The switch on the model: Prophet, and ARIMA for every other model.
GenerateForecasts(p, clock) ==
    IF p.model = "PROPHET" THEN generateProphetForecast(p, clock)
    ELSE generateARIMAForecast(p, clock)

InternalError(message) ==
    [status |-> 500, success |-> FALSE, error |-> message, data |-> Null]

\* take: n of a query: the first n rows, the last -n rows for a negative n.
Take(rows, n) ==
    IF n >= 0 THEN SubSeq(rows, 1, IF n < Len(rows) THEN n ELSE Len(rows))
    ELSE SubSeq(rows, IF Len(rows) + n < 0 THEN 1 ELSE Len(rows) + n + 1, Len(rows))

\* Lines 44-55: the stored forecasts of the scenario (and segment) dated from
\* now to the horizon.
FindStoredForecasts(table, p, clock) ==
    Take(SelectSeq(table,
                   LAMBDA f : /\ p.segmentId # Null => f.businessSegmentId = p.segmentId
                              /\ f.scenario = p.scenario
                              /\ f.forecastDate >= clock
                              /\ f.forecastDate <= clock + p.horizon),
         p.horizon)

AccuracySample == 50

\* |actual - predicted| / |actual| in thousandths, 0 for an actual of 0.
AbsoluteError(f) ==
    LET actual == f.actualAmount[1]
        predicted == f.predictedAmount
    IN  IF actual = 0 THEN 0
        ELSE (MathAbs(actual - predicted) * Scale) \div MathAbs(actual)

\* Lines 100-144: mape and accuracy in percent, from at most 50 forecasts
\* whose actual amount is known.
calculateForecastAccuracy(table, p, clock) ==
    LET historicalForecasts ==
            Take(SelectSeq(table,
                           LAMBDA f :
                               /\ p.segmentId # Null => f.businessSegmentId = p.segmentId
                               /\ f.modelType = p.model
                               /\ f.scenario = p.scenario
                               /\ f.actualAmount # Null
                               /\ f.forecastDate <= clock),
                 AccuracySample)
        errors == [k \in 1..Len(historicalForecasts) |->
                      AbsoluteError(historicalForecasts[k])]
        mape == FDiv(SumOver(errors, 1, Len(errors)), Len(errors))
    IN  IF Len(historicalForecasts) = 0
        THEN [mape |-> Null, accuracy |-> Null, sampleSize |-> 0]
        ELSE [mape |-> Some(MulS(mape, 100)),
              accuracy |-> Some(MulS(MathMax(0, Scale - mape), 100)),
              sampleSize |-> Len(historicalForecasts)]

\* GET: the parameters are read and MLForecasting issues its history query.
GetForecasts ==
    /\ forecastPc = "request"
    /\ forecastRequest.method = "GET"
    /\ forecastParams' = GetForecastParams(forecastRequest)
    /\ dbLog' = Append(dbLog, DbCall("findMany", 0, 0))
    /\ forecastPc' = "history"
    /\ UNCHANGED << now, clientVars, simulationVars, ensemble, forecastRequest, forecastResponse,
                    forecasts, storedForecasts, cashFlowForecast >>

\* POST: the same from the body.
PostForecasts ==
    /\ forecastPc = "request"
    /\ forecastRequest.method = "POST"
    /\ forecastParams' = PostForecastParams(forecastRequest)
    /\ dbLog' = Append(dbLog, DbCall("findMany", 0, 0))
    /\ forecastPc' = "history"
    /\ UNCHANGED << now, clientVars, simulationVars, ensemble, forecastRequest, forecastResponse,
                    forecasts, storedForecasts, cashFlowForecast >>

\* The create calls of Promise.all(forecasts.map(create)), all issued at once.
CreateCalls(fs) == [k \in 1..Len(fs) |-> DbCall("create", k, k)]

\* The history query answers and the forecasts are computed; GET then reads
\* the stored forecasts, POST issues one create per forecast.
ForecastsComputed ==
    /\ forecastPc = "history"
    /\ LET fs == GenerateForecasts(forecastParams, now)
       IN  /\ forecasts' = fs
           /\ IF forecastRequest.method = "GET"
              THEN /\ dbLog' = Append(Settled(dbLog, "ok"), DbCall("forecast.findMany", 0, 0))
                   /\ forecastPc' = "stored"
              ELSE /\ dbLog' = Settled(dbLog, "ok") \o CreateCalls(fs)
                   /\ forecastPc' = "creating"
    /\ UNCHANGED << now, clientVars, simulationVars, ensemble, forecastRequest, forecastResponse,
                    forecastParams, storedForecasts, cashFlowForecast >>

FailureMessage(method) ==
    IF method = "GET" THEN "Failed to generate forecasts" ELSE "Failed to save forecasts"

\* A query of the request fails: the catch block answers 500.
ForecastQueryFails ==
    /\ forecastPc \in {"history", "stored", "accuracy"}
    /\ dbLog' = Settled(dbLog, "failed")
    /\ forecastResponse' = InternalError(FailureMessage(forecastRequest.method))
    /\ forecastPc' = "done"
    /\ UNCHANGED << now, clientVars, simulationVars, ensemble, forecastRequest, forecastParams, forecasts,
                    storedForecasts, cashFlowForecast >>

\* GET: the stored forecasts are read; calculateForecastAccuracy issues its
\* query.  A horizon of NaN makes the date bound invalid, and the query can
\* only fail.
StoredForecastsRead ==
    /\ forecastPc = "stored"
    /\ ~IsNaN(forecastParams.horizon)
    /\ storedForecasts' = FindStoredForecasts(cashFlowForecast, forecastParams, now)
    /\ dbLog' = Append(Settled(dbLog, "ok"), DbCall("forecast.findMany", 0, 0))
    /\ forecastPc' = "accuracy"
    /\ UNCHANGED << now, clientVars, simulationVars, ensemble, forecastRequest, forecastResponse,
                    forecastParams, forecasts, cashFlowForecast >>

\* Lines 71-81: a stored forecast as the response shows it.  A stored amount
\* is a Decimal object, falsy only when it is null.
StoredView(f) ==
    [id |-> f.id, date |-> ToISOString(f.forecastDate), predicted |-> f.predictedAmount,
     actual |-> f.actualAmount,
     confidence |-> f.confidence, lowerBound |-> f.lowerBound,
     upperBound |-> f.upperBound, model |-> f.modelType]

\* GET: the accuracy is computed and the route answers.
GetResponds ==
    /\ forecastPc = "accuracy"
    /\ dbLog' = Settled(dbLog, "ok")
    /\ forecastResponse' =
           [status |-> 200, success |-> TRUE, error |-> "",
            data |-> Some(
                [forecasts |-> [k \in 1..Len(forecasts) |->
                                   [forecasts[k] EXCEPT !.date = ToISOString(@)]],
                 storedForecasts |-> [k \in 1..Len(storedForecasts) |->
                                         StoredView(storedForecasts[k])],
                 accuracy |-> calculateForecastAccuracy(cashFlowForecast, forecastParams, now),
                 parameters |-> [segmentId |-> forecastRequest.segmentId,
                                 horizon |-> forecastParams.horizon,
                                 model |-> forecastParams.model,
                                 scenario |-> forecastParams.scenario]])]
    /\ forecastPc' = "done"
    /\ UNCHANGED << now, clientVars, simulationVars, ensemble, forecastRequest, forecastParams, forecasts,
                    storedForecasts, cashFlowForecast >>

\* The create calls still in flight, as positions in the log.
PendingCreates ==
    {j \in 1..Len(dbLog) : dbLog[j].op = "create" /\ dbLog[j].status = "pending"}

NextCreate == CHOOSE j \in PendingCreates : \A k \in PendingCreates : j <= k

\* Lines 186-199: the row a create call writes for forecast f.
CreatedRow(id, f, p) ==
    [id |-> id, forecastDate |-> f.date, predictedAmount |-> f.predicted,
     actualAmount |-> Null, confidence |-> f.confidence, lowerBound |-> f.lowerBound,
     upperBound |-> f.upperBound, modelType |-> f.model, scenario |-> p.scenario,
     businessSegmentId |-> p.segmentId]

\* POST: a create call commits its row.
CreateCommits ==
    /\ forecastPc = "creating"
    /\ PendingCreates # {}
    /\ cashFlowForecast' =
           Append(cashFlowForecast,
                  CreatedRow(Len(cashFlowForecast) + 1, forecasts[dbLog[NextCreate].first],
                             forecastParams))
    /\ dbLog' = [dbLog EXCEPT ![NextCreate].status = "ok"]
    /\ UNCHANGED << now, clientVars, simulationVars, ensemble, forecastRequest, forecastResponse, forecastPc,
                    forecastParams, forecasts, storedForecasts >>

\* POST: a create call fails; Promise.all rejects and the catch block answers
\* 500.  The calls still in flight are not followed further.
CreateFails ==
    /\ forecastPc = "creating"
    /\ PendingCreates # {}
    /\ dbLog' = [dbLog EXCEPT ![NextCreate].status = "failed"]
    /\ forecastResponse' = InternalError(FailureMessage(forecastRequest.method))
    /\ forecastPc' = "done"
    /\ UNCHANGED << now, clientVars, simulationVars, ensemble, forecastRequest, forecastParams, forecasts,
                    storedForecasts, cashFlowForecast >>

\* The rows created by this request.
SavedForecasts ==
    SubSeq(cashFlowForecast, Len(CashFlowForecastTable(now)) + 1, Len(cashFlowForecast))

\* POST: every create has committed and the route answers.
PostResponds ==
    /\ forecastPc = "creating"
    /\ PendingCreates = {}
    /\ forecastResponse' =
           [status |-> 200, success |-> TRUE, error |-> "",
            data |-> Some(
                [count |-> Len(SavedForecasts),
                 forecasts |-> [k \in 1..Len(SavedForecasts) |->
                                   [id |-> SavedForecasts[k].id,
                                    date |-> ToISOString(SavedForecasts[k].forecastDate),
                                    predicted |-> SavedForecasts[k].predictedAmount,
                                    confidence |-> SavedForecasts[k].confidence,
                                    model |-> SavedForecasts[k].modelType,
                                    scenario |-> SavedForecasts[k].scenario]]])]
    /\ forecastPc' = "done"
    /\ UNCHANGED << now, clientVars, dbLog, simulationVars, ensemble, forecastRequest, forecastParams,
                    forecasts, storedForecasts, cashFlowForecast >>

(***************************************************************************)
(* MLForecasting called directly: each of its four public methods takes    *)
(* ForecastParameters, queries the history and returns its forecasts.      *)
(***************************************************************************)
MlMethods ==
    {"generateRegressionForecast", "generateARIMAForecast", "generateProphetForecast",
     "generateEnsembleForecast"}

\* The history queries a method issues before its first await completes: the
\* ensemble starts its three forecasts at once.
HistoryQueries(method) ==
    IF method = "generateEnsembleForecast"
    THEN << DbCall("findMany", 0, 0), DbCall("findMany", 0, 0), DbCall("findMany", 0, 0) >>
    ELSE << DbCall("findMany", 0, 0) >>

AllSettled(log, status) == [j \in 1..Len(log) |-> [log[j] EXCEPT !.status = status]]

\* A method is called with the ForecastParameters of the request.
MlCall ==
    /\ forecastPc = "request"
    /\ forecastRequest.method \in MlMethods
    /\ forecastParams' =
           [horizon |-> forecastRequest.horizon[1], model |-> forecastRequest.model[1],
            scenario |-> forecastRequest.scenario[1],
            segmentId |-> forecastRequest.segmentId]
    /\ dbLog' = dbLog \o HistoryQueries(forecastRequest.method)
    /\ forecastPc' = "history"
    /\ UNCHANGED << now, clientVars, simulationVars, ensemble, forecastRequest, forecastResponse,
                    forecasts, storedForecasts, cashFlowForecast >>

\* What a single-model method returns.
MlForecast(method, p, clock) ==
    CASE method = "generateRegressionForecast" -> generateRegressionForecast(p, clock)
      [] method = "generateARIMAForecast" -> generateARIMAForecast(p, clock)
      [] method = "generateProphetForecast" -> generateProphetForecast(p, clock)

\* The history query of a single-model method answers and the method returns.
MlReturns ==
    /\ forecastPc = "history"
    /\ forecastRequest.method \in MlMethods \ {"generateEnsembleForecast"}
    /\ forecasts' = MlForecast(forecastRequest.method, forecastParams, now)
    /\ dbLog' = AllSettled(dbLog, "ok")
    /\ forecastPc' = "done"
    /\ UNCHANGED << now, clientVars, simulationVars, ensemble, forecastRequest, forecastResponse,
                    forecastParams, storedForecasts, cashFlowForecast >>

\* The three forecasts of the ensemble are back and are combined.
EnsembleReturns ==
    /\ forecastPc = "history"
    /\ forecastRequest.method = "generateEnsembleForecast"
    /\ LET parts == EnsembleParts(forecastParams, now)
       IN  /\ ensemble' = parts
           /\ forecasts' = CombineForecasts(parts, forecastParams.scenario)
    /\ dbLog' = AllSettled(dbLog, "ok")
    /\ forecastPc' = "done"
    /\ UNCHANGED << now, clientVars, simulationVars, forecastRequest, forecastResponse,
                    forecastParams, storedForecasts, cashFlowForecast >>

\* A history query fails: the method's promise rejects.
MlRejects ==
    /\ forecastPc = "history"
    /\ forecastRequest.method \in MlMethods
    /\ dbLog' = [dbLog EXCEPT ![Len(dbLog)].status = "failed"]
    /\ forecastPc' = "rejected"
    /\ UNCHANGED << now, clientVars, simulationVars, ensemble, forecastRequest, forecastResponse,
                    forecastParams, forecasts, storedForecasts, cashFlowForecast >>

(***************************************************************************)
(* RecommendationsPanel and /api/recommendations                           *)
(***************************************************************************)
\* The call with its stage and result replaced.
Answered(call, ok, rows) ==
    [call EXCEPT !.stage = "response", !.ok = ok, !.recommendations = rows]

\* useEffect on mount: the panel fetches its list.
MountRecommendationsPanel(c) ==
    /\ ~recommendationsPanel[c].mounted
    /\ recommendationsPanel' = [recommendationsPanel EXCEPT ![c].mounted = TRUE]
    /\ recommendationCalls' =
           recommendationCalls \cup
           {FetchRecommendationsCall(c, recommendationsPanel[c].statusFilter)}
    /\ UNCHANGED << now, dbLog, simulationVars, forecastVars, businessRecommendation,
                    dashboardPanel, panelCalls >>

\* The user selects another status filter: the effect refetches the list.
SetStatusFilter(c, statusFilter) ==
    /\ recommendationsPanel[c].mounted
    /\ statusFilter # recommendationsPanel[c].statusFilter
    /\ PanelActions(recommendationsPanel) < MaxPanelActions
    /\ recommendationsPanel' =
           [recommendationsPanel EXCEPT ![c].statusFilter = statusFilter,
                                        ![c].actions = @ + 1]
    /\ recommendationCalls' =
           recommendationCalls \cup {FetchRecommendationsCall(c, statusFilter)}
    /\ UNCHANGED << now, dbLog, simulationVars, forecastVars, businessRecommendation,
                    dashboardPanel, panelCalls >>

\* The user presses a button of a recommendation in the panel's list:
\* updateRecommendationStatus up to the await of its PATCH.
UpdateRecommendationStatus(c, rec, status) ==
    /\ recommendationsPanel[c].mounted
    /\ rec \in recommendationsPanel[c].recommendations
    /\ status \in ButtonsFor(rec.status)
    /\ PanelActions(recommendationsPanel) < MaxPanelActions
    /\ recommendationsPanel' = [recommendationsPanel EXCEPT ![c].actions = @ + 1]
    /\ recommendationCalls' =
           recommendationCalls \cup
           {RecommendationCall(c, "PATCH", rec.id, status,
                               recommendationsPanel[c].statusFilter)}
    /\ UNCHANGED << now, dbLog, simulationVars, forecastVars, businessRecommendation,
                    dashboardPanel, panelCalls >>

\* GET /api/recommendations handles a request.
GetRecommendations(call) ==
    /\ call.stage = "request"
    /\ call.method = "GET"
    /\ recommendationCalls' =
           (recommendationCalls \ {call}) \cup
           {Answered(call, TRUE, FindRecommendations(businessRecommendation,
                                                     call.statusFilter))}
    /\ UNCHANGED << now, dbLog, simulationVars, forecastVars, businessRecommendation,
                    recommendationsPanel, dashboardPanel, panelCalls >>

\* PATCH /api/recommendations handles a request: the row takes the status of
\* the body, whatever its status was.
PatchRecommendation(call) ==
    /\ call.stage = "request"
    /\ call.method = "PATCH"
    /\ businessRecommendation' =
           [businessRecommendation EXCEPT
               ![call.recommendationId] = UpdatedRecommendation(call.status, now)]
    /\ recommendationCalls' = (recommendationCalls \ {call}) \cup {Answered(call, TRUE, {})}
    /\ UNCHANGED << now, dbLog, simulationVars, forecastVars, recommendationsPanel,
                    dashboardPanel, panelCalls >>

\* The store rejects the query of a request: the catch block answers 500.
RecommendationCallFails(call) ==
    /\ call.stage = "request"
    /\ recommendationCalls' = (recommendationCalls \ {call}) \cup {Answered(call, FALSE, {})}
    /\ UNCHANGED << now, dbLog, simulationVars, forecastVars, businessRecommendation,
                    recommendationsPanel, dashboardPanel, panelCalls >>

\* fetchRecommendations after its await: an ok response replaces the list.
ReceiveRecommendations(call) ==
    /\ call.stage = "response"
    /\ call.method = "GET"
    /\ recommendationsPanel' =
           [recommendationsPanel EXCEPT
               ![call.client].recommendations =
                   IF call.ok THEN call.recommendations ELSE @]
    /\ recommendationCalls' = recommendationCalls \ {call}
    /\ UNCHANGED << now, dbLog, simulationVars, forecastVars, businessRecommendation,
                    dashboardPanel, panelCalls >>

\* updateRecommendationStatus after its await: an ok response refetches the
\* list, with the filter of the render in which the button was pressed.
ReceivePatch(call) ==
    /\ call.stage = "response"
    /\ call.method = "PATCH"
    /\ recommendationCalls' =
           IF call.ok
           THEN (recommendationCalls \ {call}) \cup
                {FetchRecommendationsCall(call.client, call.statusFilter)}
           ELSE recommendationCalls \ {call}
    /\ UNCHANGED << now, dbLog, simulationVars, forecastVars, businessRecommendation,
                    recommendationsPanel, dashboardPanel, panelCalls >>

(***************************************************************************)
(* KPIOverview and ForecastingPanel                                        *)
(***************************************************************************)
\* The component is rendered: its effect fetches with the initial filters.
MountPanel(component) ==
    /\ ~dashboardPanel.mounted
    /\ dashboardPanel' = [UnmountedPanel(component) EXCEPT !.mounted = TRUE]
    /\ panelCalls' = << PanelCall(InitialFilters(component)) >>
    /\ UNCHANGED << now, dbLog, simulationVars, forecastVars, businessRecommendation,
                    recommendationsPanel, recommendationCalls >>

\* A filter the fetch callback depends on changes: the effect fetches again.
\* The requests still in flight are left alone.
ChangeFilter(filters) ==
    /\ dashboardPanel.mounted
    /\ filters \in SelectableFilters(dashboardPanel.component)
    /\ filters # dashboardPanel.filters
    /\ dashboardPanel.changes < MaxFilterChanges
    /\ dashboardPanel' =
           [dashboardPanel EXCEPT !.filters = filters, !.changes = @ + 1]
    /\ panelCalls' = Append(panelCalls, PanelCall(filters))
    /\ UNCHANGED << now, dbLog, simulationVars, forecastVars, businessRecommendation,
                    recommendationsPanel, recommendationCalls >>

\* The route answers the k-th request with the data of its filters.
ServePanelCall(k) ==
    /\ panelCalls[k].stage = "request"
    /\ panelCalls' = [panelCalls EXCEPT ![k].stage = "response", ![k].ok = TRUE]
    /\ UNCHANGED << now, dbLog, simulationVars, forecastVars, businessRecommendation,
                    recommendationsPanel, recommendationCalls, dashboardPanel >>

\* The route answers the k-th request with 404 or 500.
PanelCallFails(k) ==
    /\ panelCalls[k].stage = "request"
    /\ panelCalls' = [panelCalls EXCEPT ![k].stage = "response", ![k].ok = FALSE]
    /\ UNCHANGED << now, dbLog, simulationVars, forecastVars, businessRecommendation,
                    recommendationsPanel, recommendationCalls, dashboardPanel >>

\* The responses that have reached the panel.
Arrived(calls) == {k \in 1..Len(calls) : calls[k].stage = "done"}

\* The await of the k-th request resumes: an ok response is displayed.
ReceivePanelResponse(k) ==
    /\ panelCalls[k].stage = "response"
    /\ panelCalls' =
           [panelCalls EXCEPT ![k].stage = "done",
                              ![k].arrival = Cardinality(Arrived(panelCalls)) + 1]
    /\ dashboardPanel' =
           [dashboardPanel EXCEPT
               !.displayed = IF panelCalls[k].ok THEN Some(panelCalls[k].filters) ELSE @]
    /\ UNCHANGED << now, dbLog, simulationVars, forecastVars, businessRecommendation,
                    recommendationsPanel, recommendationCalls >>

(***************************************************************************)
(* Specifications                                                          *)
(***************************************************************************)
\* One request whose first run meets every random source, month by month.
InitRun == InitWith(RunBodies, {[cycle |-> << 0, 3, 3 >>, pos |-> 0]}, {NoForecastRequest})

NextRun ==
    \/ PostSimulation
    \/ QueryReturns
    \/ QueryFails
    \/ StartFirstRun
    \/ Reseed
    \/ MonthStep
    \/ FinishRun

SpecRun == InitRun /\ [][NextRun]_vars

\* One request handled to its response, on a mocked random source.
ApiSources ==
    { [cycle |-> << 1, 6, 3, 0, 2, 11, 7, 5 >>, pos |-> 0],
      [cycle |-> << 6, 4, 1, 1, 3 >>, pos |-> 0] }

ApiBodies ==
    { Body(Some(MinRuns), Some(MaxTimeHorizon), Null, Some("north"), Some(EvenCustom)),
      Body(Some(MaxRuns), Some(MinTimeHorizon), Some("STRESS_TEST"), Null, Some(StressCustom)),
      Body(Some(MinRuns), Some(MinTimeHorizon), Some("BASE"), Some("dormant"), Null),
      Body(Some(0), Some(MinTimeHorizon), Null, Null, Null),
      Body(Some(MinRuns + 30), Some(3), Some("STRESS_TEST"), Null, Some(EvenCustom)),
      Body(Some(MinRuns), Some(0), Some("PESSIMISTIC"), Null, Some(EvenCustom)),
      Body(Some(MinRuns - 1), Some(MinTimeHorizon), Null, Null, Null),
      Body(Some(MaxRuns + 1), Some(MinTimeHorizon), Null, Null, Null),
      Body(Some(MinRuns), Some(MaxTimeHorizon + 1), Null, Null, Null),
      Body(Some(MinRuns), Some(-1), Null, Null, Null) }

InitApi == InitWith(ApiBodies, ApiSources, {NoForecastRequest})

NextApi ==
    \/ PostSimulation
    \/ QueryReturns
    \/ QueryFails
    \/ StartRun
    \/ MonthStep
    \/ FinishRun
    \/ Summarize
    \/ IssueBatch
    \/ BatchCommits
    \/ BatchFails
    \/ Respond

SpecApi == InitApi /\ [][NextApi]_vars

\* One request to /api/forecasts handled to its response.
ForecastRequest(method, horizonText, horizon, model, scenario, segmentId) ==
    [method |-> method, horizonText |-> horizonText, horizon |-> horizon,
     model |-> model, scenario |-> scenario, segmentId |-> segmentId]

\* The horizon parameter of a GET, as text: absent, 1, 36, 37, 0, -1, a word.
HorizonTexts ==
    { << >>, << "1" >>, << "3", "6" >>, << "3", "7" >>, << "0" >>, << "-", "1" >>,
      << "s", "i", "x" >> }

\* The horizon of a POST body: absent, 1, 36, 37, 0, -1.
HorizonValues ==
    { Null, Some(MinTimeHorizon), Some(MaxTimeHorizon), Some(MaxTimeHorizon + 1),
      Some(0), Some(-1) }

ForecastRequests ==
    { ForecastRequest(m[1], m[2], m[3], model, scenario, segmentId) :
        m \in ({"GET"} \X HorizonTexts \X {Null})
                 \cup ({"POST"} \X {<< >>} \X HorizonValues),
        model \in {Null} \cup {Some(x) : x \in ForecastModel},
        scenario \in {Null, Some("STRESS_TEST")},
        segmentId \in {Null, Some("north"), Some("south"), Some("dormant")} }

InitForecast ==
    InitWith({Body(Null, Null, Null, Null, Null)},
             {[cycle |-> << 0, 3, 3 >>, pos |-> 0]}, ForecastRequests)

NextForecast ==
    \/ GetForecasts
    \/ PostForecasts
    \/ ForecastsComputed
    \/ ForecastQueryFails
    \/ StoredForecastsRead
    \/ GetResponds
    \/ CreateCommits
    \/ CreateFails
    \/ PostResponds

SpecForecast == InitForecast /\ [][NextForecast]_vars

\* One direct call of a method of MLForecasting.
MlHorizons == {0, 1, 8, 9, 12, MaxTimeHorizon}

MlRequests ==
    { ForecastRequest(method, << >>, Some(h), Some("ENSEMBLE"), Some(scenario), segmentId) :
        method \in MlMethods, h \in MlHorizons, scenario \in ScenarioType,
        segmentId \in {Null, Some("north"), Some("south"), Some("dormant")} }

InitMl ==
    InitWith({Body(Null, Null, Null, Null, Null)},
             {[cycle |-> << 0, 3, 3 >>, pos |-> 0]}, MlRequests)

NextMl ==
    \/ MlCall
    \/ MlReturns
    \/ EnsembleReturns
    \/ MlRejects

SpecMl == InitMl /\ [][NextMl]_vars

\* The panels of the dashboard against one store; no request to the routes above.
InitClient ==
    InitWith({Body(Null, Null, Null, Null, Null)},
             {[cycle |-> << 0, 3, 3 >>, pos |-> 0]}, {NoForecastRequest})

NextRecommendations ==
    \/ \E c \in Clients : MountRecommendationsPanel(c)
    \/ \E c \in Clients, statusFilter \in StatusFilters : SetStatusFilter(c, statusFilter)
    \/ \E c \in Clients :
           \E rec \in recommendationsPanel[c].recommendations, status \in RecommendationStatus :
               UpdateRecommendationStatus(c, rec, status)
    \/ \E call \in recommendationCalls : GetRecommendations(call)
    \/ \E call \in recommendationCalls : PatchRecommendation(call)
    \/ \E call \in recommendationCalls : RecommendationCallFails(call)
    \/ \E call \in recommendationCalls : ReceiveRecommendations(call)
    \/ \E call \in recommendationCalls : ReceivePatch(call)

SpecRecommendations == InitClient /\ [][NextRecommendations]_vars

\* One dashboard panel whose filters change while its requests are in flight.
NextPanel ==
    \/ \E component \in PanelComponents : MountPanel(component)
    \/ \E filters \in SelectableFilters(dashboardPanel.component) : ChangeFilter(filters)
    \/ \E k \in 1..Len(panelCalls) : ServePanelCall(k)
    \/ \E k \in 1..Len(panelCalls) : PanelCallFails(k)
    \/ \E k \in 1..Len(panelCalls) : ReceivePanelResponse(k)

SpecPanel == InitClient /\ [][NextPanel]_vars

(***************************************************************************)
(* Claims about a single run                                               *)
(***************************************************************************)
\* The balance of run r after month t, month 0 being the starting balance.
BalanceAt(r, t) ==
    IF t = 0 THEN StartingBalance ELSE r.monthlyResults[t].cumulativeBalance

HasNegativeMonth(r) ==
    \E t \in 1..Len(r.monthlyResults) : Lt(r.monthlyResults[t].cumulativeBalance, 0)

HasNaN(r) == IsNaN(r.finalBalance)

\* C1: in every run returned by runSingleSimulation, every monthly record has
\* minBalance <= cumulativeBalance <= maxBalance for the run's returned
\* minBalance and maxBalance.
C1_BalanceWithinMinMax ==
    \A k \in 1..Len(runs) :
        \A t \in 1..Len(runs[k].monthlyResults) :
            /\ Le(runs[k].minBalance, runs[k].monthlyResults[t].cumulativeBalance)
            /\ Le(runs[k].monthlyResults[t].cumulativeBalance, runs[k].maxBalance)

\* C1, on numbers: the same in every run whose balances are numbers (its base
\* parameters are not NaN).
C1_BalanceWithinMinMaxOfNumbers ==
    \A k \in 1..Len(runs) :
        ~HasNaN(runs[k]) =>
            \A t \in 1..Len(runs[k].monthlyResults) :
                /\ Le(runs[k].minBalance, runs[k].monthlyResults[t].cumulativeBalance)
                /\ Le(runs[k].monthlyResults[t].cumulativeBalance, runs[k].maxBalance)

\* C2: in every run whose balance went negative in some month, runwayMonths is
\* the last month before the balance first goes negative: the balance after
\* month runwayMonths (the starting balance for month 0) and after every
\* earlier month is >= 0, and the balance after month runwayMonths + 1 is < 0.
C2_RunwayIsLastMonthBeforeCrossing ==
    \A k \in 1..Len(runs) :
        HasNegativeMonth(runs[k]) =>
            /\ runs[k].runwayMonths # Null
            /\ runs[k].runwayMonths[1] \in 0..(Len(runs[k].monthlyResults) - 1)
            /\ \A t \in 0..runs[k].runwayMonths[1] : Ge(BalanceAt(runs[k], t), 0)
            /\ Lt(BalanceAt(runs[k], runs[k].runwayMonths[1] + 1), 0)

\* C2's witness: a returned run that first went negative after its first
\* month and recovered to a non-negative final balance.
C2_Witness ==
    \E k \in 1..Len(runs) :
        /\ HasNegativeMonth(runs[k])
        /\ runs[k].runwayMonths # Null
        /\ runs[k].runwayMonths[1] >= 1
        /\ Ge(runs[k].finalBalance, 0)

\* What of a run is compared between two executions: everything but its run
\* number and the dates of its records.
Observable(r) ==
    [runNumber |-> 0,
     monthlyResults |->
         [t \in 1..Len(r.monthlyResults) |-> [r.monthlyResults[t] EXCEPT !.date = 0]],
     finalBalance |-> r.finalBalance,
     minBalance |-> r.minBalance,
     maxBalance |-> r.maxBalance,
     probabilityNegative |-> r.probabilityNegative,
     runwayMonths |-> r.runwayMonths]

\* C7: two executions of a run on the same base parameters, scenario, time
\* horizon and values of the random source, one of them at another wall clock
\* and as another run number, produce the same monthly inflow, outflow,
\* netFlow and cumulativeBalance and the same finalBalance, minBalance,
\* maxBalance, probabilityNegative and runwayMonths.
C7_SameDrawsSameRun ==
    /\ pc = "months" =>
           Observable(RunResult(runNumber, Locals))
               = Observable(RunResult(twin.runNumber, twin.locals))
    /\ twin.result # Null =>
           Observable(runs[Len(runs)]) = Observable(twin.result[1])

\* C7's witness: both executions have returned a run of several months on
\* numbers, in which the balance went negative, and their dates differ.
C7_Witness ==
    /\ twin.result # Null
    /\ Len(runs[Len(runs)].monthlyResults) >= 2
    /\ HasNegativeMonth(runs[Len(runs)])
    /\ ~HasNaN(runs[Len(runs)])
    /\ runs[Len(runs)].monthlyResults[1].date # twin.result[1].monthlyResults[1].date
    /\ runs[Len(runs)].runNumber # twin.result[1].runNumber

(***************************************************************************)
(* Claims about a request to POST /api/simulation                          *)
(***************************************************************************)
Indicators(rs) == [k \in 1..Len(rs) |-> rs[k].probabilityNegative]

\* C3: each run's probabilityNegative is 1 if some month's cumulative balance
\* of the run is below zero and 0 otherwise, and the aggregate
\* statistics.probabilityNegative over the N runs is (number of runs with
\* minBalance < 0) / N, the mean of the per-run indicators.
C3_ProbabilityNegative ==
    /\ \A k \in 1..Len(runs) :
           runs[k].probabilityNegative = IF HasNegativeMonth(runs[k]) THEN 1 ELSE 0
    /\ (pc \in {"save", "saving", "done"} /\ Len(runs) > 0) =>
           /\ statistics.probabilityNegative.den = Len(runs)
           /\ statistics.probabilityNegative.den = params.numRuns
           /\ statistics.probabilityNegative.num =
                  Cardinality({k \in 1..Len(runs) : Lt(runs[k].minBalance, 0)})
           /\ statistics.probabilityNegative.num =
                  SumOver(Indicators(runs), 1, Len(runs))

\* C3's witness: the statistics of a simulation in which some runs went
\* negative and others did not, one of the former ending non-negative.
C3_Witness ==
    /\ pc = "save"
    /\ statistics.probabilityNegative.num \in 1..(Len(runs) - 1)
    /\ \E k \in 1..Len(runs) :
           runs[k].probabilityNegative = 1 /\ Ge(runs[k].finalBalance, 0)

RunSimulationInvoked == simulationId # << >>

NumRunsMessage == "Number of runs must be between 100 and 2000"

\* The request has a timeHorizon the route lets through.
HorizonPasses ==
    request.timeHorizon \in {Some(h) : h \in 0..MaxTimeHorizon} \cup {Null}

\* C4: numRuns = 100 and numRuns = 2000 are accepted (runSimulation is
\* invoked and, unless the store fails, every run is simulated), and
\* numRuns = 99 and numRuns = 2001 are answered 400 without runSimulation
\* being invoked.
C4_NumRunsBoundaries ==
    pc # "request" =>
        /\ (request.numRuns \in {Some(MinRuns), Some(MaxRuns)} /\ HorizonPasses) =>
               /\ RunSimulationInvoked
               /\ response.status # 400
               /\ response.success => Len(runs) = request.numRuns[1]
        /\ request.numRuns \in {Some(MinRuns - 1), Some(MaxRuns + 1)} =>
               /\ response = BadRequest(NumRunsMessage)
               /\ pc = "done"
               /\ ~RunSimulationInvoked
               /\ dbLog = << >> /\ runs = << >> /\ simulationResult = << >>

\* C4's witness: a request for 2000 runs was let through, runSimulation was
\* invoked and has simulated its first run.
C4_Witness ==
    /\ request.numRuns = Some(MaxRuns)
    /\ RunSimulationInvoked
    /\ Len(runs) >= 1
    /\ response.status = 0

\* The request is rejected and nothing was queried, computed or persisted.
RejectedBeforeComputation ==
    /\ pc = "done"
    /\ response.status = 400
    /\ ~RunSimulationInvoked
    /\ dbLog = << >>
    /\ runs = << >>
    /\ simulationResult = << >>

Submitted(x) == x # Null

\* C5: every request that submits a numRuns outside [100, 2000] or a
\* timeHorizon outside [1, 36] is rejected before any computation: no
\* historical query is issued, no run is simulated, nothing is persisted.
C5_OutOfBoundsRejectedBeforeComputation ==
    (/\ pc # "request"
     /\ \/ Submitted(request.numRuns) /\ request.numRuns[1] \notin MinRuns..MaxRuns
        \/ /\ Submitted(request.timeHorizon)
           /\ request.timeHorizon[1] \notin MinTimeHorizon..MaxTimeHorizon)
        => RejectedBeforeComputation

\* C5, away from zero: the same for every submitted value other than 0.
C5_NonZeroOutOfBoundsRejected ==
    (/\ pc # "request"
     /\ \/ /\ Submitted(request.numRuns)
           /\ request.numRuns[1] \notin (MinRuns..MaxRuns) \cup {0}
        \/ /\ Submitted(request.timeHorizon)
           /\ request.timeHorizon[1] \notin (MinTimeHorizon..MaxTimeHorizon) \cup {0})
        => RejectedBeforeComputation

\* C8: every run holds exactly timeHorizon monthly records, of months
\* 1, 2, ..., timeHorizon in that order (one record for timeHorizon = 1,
\* 36 for timeHorizon = 36), and the run in progress holds the records of the
\* months it has been through.
C8_OneRecordPerMonth ==
    /\ \A k \in 1..Len(runs) :
           /\ Len(runs[k].monthlyResults) = params.timeHorizon
           /\ \A t \in 1..Len(runs[k].monthlyResults) :
                  runs[k].monthlyResults[t].month = t
    /\ pc = "months" => Len(monthlyResults) = month - 1

\* C8's witness: a simulation of 36 months has returned runs, each of 36
\* records.
C8_Witness ==
    /\ params.timeHorizon = MaxTimeHorizon
    /\ Len(runs) >= 2
    /\ \A k \in 1..Len(runs) : Len(runs[k].monthlyResults) = MaxTimeHorizon

\* The positions of the createMany calls in the log.
IsSave(call) == call.op = "createMany"

\* C9: the batches are issued one after another in run order, each of at
\* most 50 records: a call is issued only when the one before it has
\* completed, no batch is issued twice, and when a batch fails no further
\* call is made, nothing of it is written and the route answers with the
\* failure.
C9_SequentialBatches ==
    /\ \A j \in 1..(Len(dbLog) - 1) : dbLog[j].status = "ok"
    /\ \A j \in 1..Len(dbLog) :
           IsSave(dbLog[j]) =>
               /\ dbLog[j].last - dbLog[j].first + 1 \in 1..BatchSize
               /\ dbLog[j].last <= Len(runs)
               /\ dbLog[j].first =
                      IF j > 1 /\ IsSave(dbLog[j - 1]) THEN dbLog[j - 1].last + 1 ELSE 1
    /\ (Len(dbLog) > 0 /\ dbLog[Len(dbLog)].status = "failed") =>
           /\ pc = "done"
           /\ response = CaughtFailure
           /\ IsSave(dbLog[Len(dbLog)]) =>
                  Len(simulationResult) = dbLog[Len(dbLog)].first - 1
    /\ (Len(dbLog) > 0 /\ dbLog[Len(dbLog)].status = "pending") =>
           pc \in {"query", "saving"}

\* C9's witness: a batch failed after others were written, and it is the last
\* call made.
C9_Witness ==
    /\ Len(dbLog) >= 3
    /\ IsSave(dbLog[Len(dbLog)])
    /\ dbLog[Len(dbLog)].status = "failed"
    /\ pc = "done"
    /\ Len(simulationResult) > 0

Saves == SelectSeq(dbLog, IsSave)

\* C10: when the simulation of N runs is answered with success, the store
\* holds the runs 1..N once each, all under the simulationId of the answer,
\* written by ceil(N / 50) batches of which all but the last hold 50 records.
C10_EveryRunWrittenOnce ==
    (pc = "done" /\ response.success) =>
        /\ Len(runs) = params.numRuns
        /\ Len(simulationResult) = params.numRuns
        /\ \A k \in 1..Len(simulationResult) :
               simulationResult[k] =
                   ResultRow(response.data[1].simulationId, params, runs[k])
        /\ \A k \in 1..Len(runs) : runs[k].runNumber = k
        /\ Len(Saves) = (params.numRuns + BatchSize - 1) \div BatchSize
        /\ \A j \in 1..Len(Saves) : Saves[j].status = "ok"
        /\ \A j \in 1..(Len(Saves) - 1) : Saves[j].last - Saves[j].first + 1 = BatchSize

\* C10's witness: a successful simulation whose number of runs is not a
\* multiple of 50, so that its last batch is short.
C10_Witness ==
    /\ pc = "done"
    /\ response.success
    /\ params.numRuns % BatchSize # 0
    /\ Len(simulationResult) = params.numRuns
    /\ Len(Saves) >= 2

(***************************************************************************)
(* Claims about a request to /api/forecasts                                *)
(***************************************************************************)
\* The horizon the route works with lies in [1, 36].
ForecastHorizonInBounds ==
    /\ Ge(forecastParams.horizon, MinTimeHorizon)
    /\ Le(forecastParams.horizon, MaxTimeHorizon)

\* MLForecasting was entered: its history query was issued.
ForecastingReached == \E j \in 1..Len(dbLog) : dbLog[j].op = "findMany"

\* C6: a GET or POST to /api/forecasts whose horizon lies outside [1, 36] is
\* rejected before any forecast is computed or persisted: MLForecasting is not
\* reached, no forecast is returned and no row is written.
C6_ForecastHorizonRejectedBeforeComputation ==
    (forecastPc # "request" /\ ~ForecastHorizonInBounds) =>
        /\ forecastPc = "done"
        /\ ~forecastResponse.success
        /\ ~ForecastingReached
        /\ forecasts = << >>
        /\ SavedForecasts = << >>

\* C6, as the routes behave: no request is answered 400, every request
\* reaches MLForecasting whatever its horizon, a horizon h >= 1 yields h
\* forecasts (37 for h = 37) and a successful POST has written them all.
C6_EveryHorizonReachesForecasting ==
    /\ forecastResponse.status # 400
    /\ forecastPc # "request" => ForecastingReached
    /\ (/\ forecastPc \in {"stored", "accuracy", "creating"} \/ forecastResponse.success
        /\ Ge(forecastParams.horizon, 1)) =>
           Len(forecasts) = forecastParams.horizon
    /\ (forecastPc = "done" /\ forecastResponse.success
            /\ forecastRequest.method = "POST") =>
           Len(SavedForecasts) = Len(forecasts)

\* C6: the state no rejection would allow, reached: a POST with horizon 37
\* answered with success after 37 forecasts were computed and written.
C6_OutOfBoundsPersisted ==
    /\ forecastPc = "done"
    /\ forecastRequest.method = "POST"
    /\ forecastParams.horizon = MaxTimeHorizon + 1
    /\ forecastResponse.success
    /\ Len(forecasts) = MaxTimeHorizon + 1
    /\ Len(SavedForecasts) = MaxTimeHorizon + 1

(***************************************************************************)
(* Claims about the failure and the order of a simulation request          *)
(***************************************************************************)
\* A call to the data store has failed.
StoreFailed == \E j \in 1..Len(dbLog) : dbLog[j].status = "failed"

\* C11: when the historical query or a persistence batch fails, the caller is
\* answered success = false with the error text "Failed to run Monte Carlo
\* simulation" and no data (no simulationId, statistics or runs); when it is a
\* batch that failed, every run had been computed and the statistics with
\* them.
C11_StoreFailureIsOpaque ==
    StoreFailed =>
        /\ pc = "done"
        /\ response.success = FALSE
        /\ response.error = "Failed to run Monte Carlo simulation"
        /\ response.data = Null
        /\ IsSave(dbLog[Len(dbLog)]) =>
               /\ Len(runs) = params.numRuns
               /\ statistics # NoStatistics
               /\ simulationId # << >>

\* C11's witness: the second batch failed after every run was computed and
\* the first batch written, and the caller was answered.
C11_Witness ==
    /\ pc = "done"
    /\ Len(dbLog) = 3
    /\ IsSave(dbLog[3])
    /\ dbLog[3].status = "failed"
    /\ Len(runs) = params.numRuns
    /\ Len(simulationResult) = BatchSize
    /\ response.success = FALSE

\* C16: the steps of a simulation request occur in one order: the historical
\* query has completed before the first run starts; the runs are computed one
\* after another (run k + 1 after run k) with no call to the data store in
\* between; the first batch is issued only when the last run has finished;
\* and the result is returned only when the last batch has been written.
C16_StepsInOrder ==
    /\ (pc \in {"loop", "months", "save", "saving"} \/ runs # << >>) =>
           /\ dbLog[1].op = "findMany"
           /\ dbLog[1].status = "ok"
    /\ pc \in {"loop", "months"} =>
           /\ Len(dbLog) = 1
           /\ runNumber = Len(runs) + 1
           /\ Len(runs) <= params.numRuns
    /\ \A k \in 1..Len(runs) : runs[k].runNumber = k
    /\ \A j \in 1..Len(dbLog) :
           /\ IsSave(dbLog[j]) => (j > 1 /\ Len(runs) = params.numRuns)
           /\ ~IsSave(dbLog[j]) => j = 1
    /\ response.success =>
           /\ pc = "done"
           /\ Len(runs) = params.numRuns
           /\ \A j \in 1..Len(dbLog) : dbLog[j].status = "ok"
           /\ Len(simulationResult) = Len(runs)
           /\ dbLog[Len(dbLog)].last = Len(runs)

\* C16's witness: every run has finished, the first batch is written and the
\* second is in flight, and no answer has been given.
C16_Witness ==
    /\ pc = "saving"
    /\ Len(dbLog) = 3
    /\ dbLog[2].status = "ok"
    /\ dbLog[3].status = "pending"
    /\ Len(runs) = params.numRuns
    /\ Len(simulationResult) = BatchSize
    /\ response = NoResponse

(***************************************************************************)
(* Claims about MLForecasting                                              *)
(***************************************************************************)
\* The method named has returned its forecasts.
Returned(method) == forecastPc = "done" /\ forecastRequest.method = method

\* C12: the confidence of step i (i = 1..horizon) of the regression forecast
\* is max(0.6, 1.0 - 0.05 * i): it does not increase with the step and is
\* never below 0.6.
C12_RegressionConfidence ==
    Returned("generateRegressionForecast") =>
        /\ Len(forecasts) = forecastParams.horizon
        /\ \A k \in 1..Len(forecasts) :
               /\ forecasts[k].confidence =
                      IF Scale - 50 * k >= 600 THEN Scale - 50 * k ELSE 600
               /\ forecasts[k].confidence >= 600
        /\ \A k \in 1..(Len(forecasts) - 1) :
               forecasts[k + 1].confidence <= forecasts[k].confidence

\* C12's witness: a regression forecast of 36 steps, whose confidence falls
\* from 0.95 to the floor at step 8 and stays there.
C12_Witness ==
    /\ Returned("generateRegressionForecast")
    /\ Len(forecasts) = MaxTimeHorizon
    /\ forecasts[1].confidence = 950
    /\ forecasts[7].confidence = 650
    /\ forecasts[8].confidence = 600
    /\ forecasts[MaxTimeHorizon].confidence = 600

\* 0.3 * regression + 0.3 * ARIMA + 0.4 * Prophet of step k, in hundredths.
WeightedSum(k) ==
    MulS(ensemble.regression[k].predicted, 300)
    + MulS(ensemble.arima[k].predicted, 300)
    + MulS(ensemble.prophet[k].predicted, 400)

\* C13, as stated: at every step the predicted value of the ensemble is
\* 0.3 * (regression predicted) + 0.3 * (ARIMA predicted) + 0.4 * (Prophet
\* predicted) of that step.
C13_EnsembleIsWeightedSum ==
    Returned("generateEnsembleForecast") =>
        \A k \in 1..Len(forecasts) : forecasts[k].predicted = WeightedSum(k)

\* C13, amended: at every step the predicted value of the ensemble is that
\* weighted sum rounded to the nearest whole number (Math.round), so it is a
\* whole number within 0.5 of the sum; there is one ensemble step per
\* regression step, and the weights sum to 1.0.
C13_EnsembleIsRoundedWeightedSum ==
    Returned("generateEnsembleForecast") =>
        /\ Len(forecasts) = Len(ensemble.regression)
        /\ Len(forecasts) = forecastParams.horizon
        /\ \A k \in 1..Len(forecasts) :
               /\ forecasts[k].predicted % Cent = 0
               /\ 2 * (forecasts[k].predicted - WeightedSum(k)) <= Cent
               /\ 2 * (WeightedSum(k) - forecasts[k].predicted) < Cent
        /\ 300 + 300 + 400 = Scale

\* C13's witness: an ensemble of several steps with a step at which the three
\* forecasts differ from one another and the weighted sum is not whole.
C13_Witness ==
    /\ Returned("generateEnsembleForecast")
    /\ Len(forecasts) >= 9
    /\ \E k \in 1..Len(forecasts) :
           /\ ensemble.regression[k].predicted # ensemble.arima[k].predicted
           /\ ensemble.regression[k].predicted # ensemble.prophet[k].predicted
           /\ ensemble.arima[k].predicted # ensemble.prophet[k].predicted
           /\ WeightedSum(k) % Cent # 0
           /\ forecasts[k].predicted # WeightedSum(k)

(***************************************************************************)
(* Claims about the runway of a run                                        *)
(***************************************************************************)
\* C17: once the balance of a run has gone below zero for the first time and
\* runwayMonths is recorded, no later month of the run changes it, whether
\* the balance recovers or goes below zero again, and the run is returned
\* with it: the extrapolation after the loop does not overwrite it.
C17_RunwayFixedAfterFirstCrossing ==
    [][(pc = "months" /\ runwayMonths # Null) =>
           /\ runwayMonths' = runwayMonths
           /\ pc' = "loop" => runs'[Len(runs')].runwayMonths = runwayMonths]_vars

\* C17's witness: a returned run whose balance went below zero in month 1,
\* recovered in month 2 and went below zero again in month 3, and whose
\* runwayMonths is still 0.
C17_Witness ==
    \E k \in 1..Len(runs) :
        /\ Len(runs[k].monthlyResults) >= 3
        /\ Lt(BalanceAt(runs[k], 1), 0)
        /\ Ge(BalanceAt(runs[k], 2), 0)
        /\ Lt(BalanceAt(runs[k], 3), 0)
        /\ runs[k].runwayMonths = Some(0)

\* The months of run r whose net flow is below zero.
BurnMonths(r) == {t \in 1..Len(r.monthlyResults) : Lt(r.monthlyResults[t].netFlow, 0)}

RECURSIVE TotalBurn(_, _)
\* The sum of |netFlow| over the months of the set ts.
TotalBurn(r, ts) ==
    IF ts = {} THEN 0
    ELSE LET t == CHOOSE x \in ts : TRUE
         IN  (0 - r.monthlyResults[t].netFlow) + TotalBurn(r, ts \ {t})

\* The average of |netFlow| over the months with a net flow below zero,
\* rounded down to the unit.
AverageBurn(r) == TotalBurn(r, BurnMonths(r)) \div Cardinality(BurnMonths(r))

\* C18: for a run whose balance never went below zero: when some month has
\* netFlow < 0, runwayMonths is floor(finalBalance / average of |netFlow| over
\* those months) and is >= 0; when none has, runwayMonths is null.  So
\* runwayMonths is null exactly when the balance never went below zero and no
\* month had a net flow below zero.
C18_ExtrapolatedRunway ==
    \A k \in 1..Len(runs) :
        LET r == runs[k]
        IN  /\ (~HasNegativeMonth(r) /\ BurnMonths(r) # {}) =>
                   /\ r.runwayMonths # Null
                   /\ r.runwayMonths[1] >= 0
                   /\ r.runwayMonths[1] * AverageBurn(r) <= r.finalBalance
                   /\ r.finalBalance < (r.runwayMonths[1] + 1) * AverageBurn(r)
            /\ (~HasNegativeMonth(r) /\ BurnMonths(r) = {}) => r.runwayMonths = Null
            /\ r.runwayMonths = Null <=> (~HasNegativeMonth(r) /\ BurnMonths(r) = {})

\* C18's witness: a returned run whose balance never went below zero, with a
\* month of negative and a month of non-negative net flow, and so a runway.
C18_Witness ==
    \E k \in 1..Len(runs) :
        /\ ~HasNegativeMonth(runs[k])
        /\ ~HasNaN(runs[k])
        /\ Cardinality(BurnMonths(runs[k])) \in 1..(Len(runs[k].monthlyResults) - 1)
        /\ runs[k].runwayMonths # Null
        /\ runs[k].runwayMonths[1] >= 1

(***************************************************************************)
(* Claims about the statistics of a simulation                             *)
(***************************************************************************)
\* calculateStatistics has returned.
StatisticsComputed ==
    \/ pc \in {"save", "saving"}
    \/ pc = "done" /\ Len(runs) > 0 /\ Len(runs) = params.numRuns

FinalBalances == [k \in 1..Len(runs) |-> runs[k].finalBalance]

\* x is the element at 0-based index k of the final balances in ascending
\* order: at most k of them are below x and more than k are at most x.
AtSortedIndex(x, k) ==
    /\ Cardinality({j \in 1..Len(runs) : FinalBalances[j] < x}) <= k
    /\ k < Cardinality({j \in 1..Len(runs) : FinalBalances[j] <= x})

\* The indexes read for n runs: floor(n / 2), floor(0.05 * n), floor(0.95 * n).
MedianIndex(n) == n \div 2

Percentile5Index(n) == (5 * n) \div 100

Percentile95Index(n) == (95 * n) \div 100

\* The percentiles are read at those indexes, which are inside the array.
PercentilesAtIndexes ==
    LET n == Len(runs)
    IN  /\ n >= 1
        /\ {MedianIndex(n), Percentile5Index(n), Percentile95Index(n)} \subseteq 0..(n - 1)
        /\ AtSortedIndex(statistics.medianFinalBalance, MedianIndex(n))
        /\ AtSortedIndex(statistics.percentile5, Percentile5Index(n))
        /\ AtSortedIndex(statistics.percentile95, Percentile95Index(n))

\* C19: for n >= 1 runs the median, the 5th and the 95th percentile are the
\* final balances at indexes floor(n / 2), floor(0.05 * n) and floor(0.95 * n)
\* of the ascending order, every index is inside 0..n-1, and so
\* percentile5 <= medianFinalBalance <= percentile95.
C19_PercentilesOrdered ==
    StatisticsComputed =>
        /\ PercentilesAtIndexes
        /\ Le(statistics.percentile5, statistics.medianFinalBalance)
        /\ Le(statistics.medianFinalBalance, statistics.percentile95)

\* C19, on numbers: the same for every simulation whose final balances are
\* numbers.
C19_PercentilesOrderedOfNumbers ==
    StatisticsComputed =>
        /\ PercentilesAtIndexes
        /\ ~HasNaN(runs[1]) =>
               /\ statistics.percentile5 <= statistics.medianFinalBalance
               /\ statistics.medianFinalBalance <= statistics.percentile95

\* C19, on numbers: statistics with three different percentiles are computed.
C19_DistinctPercentilesReached ==
    /\ pc = "save"
    /\ ~HasNaN(runs[1])
    /\ statistics.percentile5 < statistics.medianFinalBalance
    /\ statistics.medianFinalBalance < statistics.percentile95

\* C19: the state the claim excludes, reached: statistics whose percentiles
\* are NaN.
C19_NaNPercentilesReached ==
    /\ pc = "save"
    /\ IsNaN(statistics.percentile5)
    /\ IsNaN(statistics.medianFinalBalance)
    /\ IsNaN(statistics.percentile95)

(***************************************************************************)
(* Claims about the flows of a month                                       *)
(***************************************************************************)
\* A month of the run in progress has been generated.
MonthGenerated == pc = "months" /\ monthlyResults # << >>

LastMonth == monthlyResults[Len(monthlyResults)]

\* The flows of the last month under each scenario are those of one execution:
\* the run's own record is the one of its scenario.
SameDraws ==
    /\ LastMonth.inflow = twin.flows[params.scenario].inflow
    /\ LastMonth.outflow = twin.flows[params.scenario].outflow

\* C14: for the same base parameters, month and random draws, the inflow
\* generated satisfies OPTIMISTIC >= BASE >= PESSIMISTIC >= STRESS_TEST and
\* the outflow STRESS_TEST >= PESSIMISTIC >= BASE >= OPTIMISTIC, also when the
\* product is negative and clamped to 0.
C14_ScenarioOrdering ==
    MonthGenerated =>
        /\ SameDraws
        /\ Ge(twin.flows["OPTIMISTIC"].inflow, twin.flows["BASE"].inflow)
        /\ Ge(twin.flows["BASE"].inflow, twin.flows["PESSIMISTIC"].inflow)
        /\ Ge(twin.flows["PESSIMISTIC"].inflow, twin.flows["STRESS_TEST"].inflow)
        /\ Ge(twin.flows["STRESS_TEST"].outflow, twin.flows["PESSIMISTIC"].outflow)
        /\ Ge(twin.flows["PESSIMISTIC"].outflow, twin.flows["BASE"].outflow)
        /\ Ge(twin.flows["BASE"].outflow, twin.flows["OPTIMISTIC"].outflow)

\* The base parameters are numbers.
NumericBaseParameters ==
    /\ ~IsNaN(baseParameters.baseInflowMean)
    /\ ~IsNaN(baseParameters.baseInflowStd)
    /\ ~IsNaN(baseParameters.baseOutflowMean)
    /\ ~IsNaN(baseParameters.baseOutflowStd)

\* C14, on numbers: the same whenever the base parameters are numbers.
C14_ScenarioOrderingOfNumbers ==
    (MonthGenerated /\ NumericBaseParameters) =>
        /\ SameDraws
        /\ twin.flows["OPTIMISTIC"].inflow >= twin.flows["BASE"].inflow
        /\ twin.flows["BASE"].inflow >= twin.flows["PESSIMISTIC"].inflow
        /\ twin.flows["PESSIMISTIC"].inflow >= twin.flows["STRESS_TEST"].inflow
        /\ twin.flows["STRESS_TEST"].outflow >= twin.flows["PESSIMISTIC"].outflow
        /\ twin.flows["PESSIMISTIC"].outflow >= twin.flows["BASE"].outflow
        /\ twin.flows["BASE"].outflow >= twin.flows["OPTIMISTIC"].outflow

\* C14, on numbers: months in which the four inflows are strictly ordered, and
\* months in which every inflow is clamped to 0, are both generated.
C14_StrictlyOrderedReached ==
    /\ MonthGenerated /\ NumericBaseParameters
    /\ twin.flows["OPTIMISTIC"].inflow > twin.flows["BASE"].inflow
    /\ twin.flows["PESSIMISTIC"].inflow > twin.flows["STRESS_TEST"].inflow
    /\ twin.flows["STRESS_TEST"].outflow > twin.flows["PESSIMISTIC"].outflow

C14_ClampedReached ==
    /\ MonthGenerated /\ NumericBaseParameters
    /\ twin.flows["OPTIMISTIC"].inflow = 0
    /\ baseParameters.baseInflowMean > 0

(***************************************************************************)
(* Claims about the base parameters                                        *)
(***************************************************************************)
\* calculateBaseParameters has returned.
BaseParametersSet == Len(dbLog) >= 1 /\ dbLog[1].op = "findMany" /\ dbLog[1].status = "ok"

\* The statistics of the history and the growth defaults: the base parameters
\* of the request without its overrides.
FromHistory ==
    calculateBaseParameters(getHistoricalData(params.segmentId, now),
                            [params EXCEPT !.customVariables = NoCustomVariables])

\* The value of a base parameter whose override is x, its statistic or
\* default being d: the override when it is supplied.
Overridden(x, d) == IF x # Null THEN x[1] ELSE d

\* C15: each of baseInflowMean, baseInflowStd, baseOutflowMean,
\* baseOutflowStd, growthRateMean and growthRateStd is exactly the value
\* customVariables supplies for it when it supplies one, and the statistic of
\* the history (the 5% / 2% growth default) when it does not.
C15_OverridesReplaceStatistics ==
    BaseParametersSet =>
        LET c == params.customVariables
        IN  /\ baseParameters.baseInflowMean =
                   Overridden(c.baseInflowMean, FromHistory.baseInflowMean)
            /\ baseParameters.baseInflowStd =
                   Overridden(c.baseInflowStd, FromHistory.baseInflowStd)
            /\ baseParameters.baseOutflowMean =
                   Overridden(c.baseOutflowMean, FromHistory.baseOutflowMean)
            /\ baseParameters.baseOutflowStd =
                   Overridden(c.baseOutflowStd, FromHistory.baseOutflowStd)
            /\ baseParameters.growthRate.mean = Overridden(c.growthRateMean, 50)
            /\ baseParameters.growthRate.std = Overridden(c.growthRateStd, 20)

\* The same for an override other than 0, a supplied 0 being passed over.
OverriddenUnlessZero(x, d) == IF x # Null /\ x[1] # 0 THEN x[1] ELSE d

\* C15, away from zero: every supplied value other than 0 replaces its
\* statistic or default, and a supplied 0 is treated as not supplied.
C15_NonZeroOverridesReplaceStatistics ==
    BaseParametersSet =>
        LET c == params.customVariables
        IN  /\ baseParameters.baseInflowMean =
                   OverriddenUnlessZero(c.baseInflowMean, FromHistory.baseInflowMean)
            /\ baseParameters.baseInflowStd =
                   OverriddenUnlessZero(c.baseInflowStd, FromHistory.baseInflowStd)
            /\ baseParameters.baseOutflowMean =
                   OverriddenUnlessZero(c.baseOutflowMean, FromHistory.baseOutflowMean)
            /\ baseParameters.baseOutflowStd =
                   OverriddenUnlessZero(c.baseOutflowStd, FromHistory.baseOutflowStd)
            /\ baseParameters.growthRate.mean = OverriddenUnlessZero(c.growthRateMean, 50)
            /\ baseParameters.growthRate.std = OverriddenUnlessZero(c.growthRateStd, 20)

\* C15: the state the claim excludes, reached: a standard deviation of 0 was
\* supplied and the statistic of the history is used in its place.
C15_ZeroOverrideIgnored ==
    /\ BaseParametersSet
    /\ params.customVariables.baseInflowStd = Some(0)
    /\ baseParameters.baseInflowStd = FromHistory.baseInflowStd
    /\ Gt(baseParameters.baseInflowStd, 0)

\* The monthly records of the returned runs and of the run in progress.
RecordedMonths ==
    UNION {{runs[k].monthlyResults[t] : t \in 1..Len(runs[k].monthlyResults)} :
               k \in 1..Len(runs)}
    \cup {monthlyResults[t] : t \in 1..Len(monthlyResults)}

\* C20: every monthly inflow and every monthly outflow recorded in a run is
\* >= 0, under every scenario and every combination of random draws.
C20_FlowsNonNegative ==
    \A m \in RecordedMonths : Ge(m.inflow, 0) /\ Ge(m.outflow, 0)

\* C20, on numbers: the same whenever the base parameters are numbers; a
\* record's net flow is then its inflow less its outflow.
C20_FlowsNonNegativeOfNumbers ==
    NumericBaseParameters =>
        \A m \in RecordedMonths :
            /\ m.inflow >= 0
            /\ m.outflow >= 0
            /\ m.netFlow = m.inflow - m.outflow

\* C20, on numbers: a month in which the growth base 1 + rate is negative and
\* the inflow is clamped to 0 while the outflow is not is recorded.
C20_ClampedInflowReached ==
    /\ MonthGenerated /\ NumericBaseParameters
    /\ LastMonth.inflow = 0
    /\ LastMonth.outflow > 0
    /\ baseParameters.growthRate.std = Scale

\* C20: the state the claim excludes, reached: a recorded month whose inflow
\* and outflow are NaN.
C20_NaNFlowsReached ==
    /\ MonthGenerated
    /\ IsNaN(LastMonth.inflow)
    /\ IsNaN(LastMonth.outflow)

(***************************************************************************)
(* Claims about the accounting of a run                                    *)
(***************************************************************************)
\* The records rs continue the starting balance by the accounting recurrence.
FollowsRecurrence(rs) ==
    \A t \in 1..Len(rs) :
        /\ rs[t].netFlow = Sub(rs[t].inflow, rs[t].outflow)
        /\ rs[t].cumulativeBalance =
               Add(IF t = 1 THEN StartingBalance ELSE rs[t - 1].cumulativeBalance,
                   rs[t].netFlow)

\* C21: in every run the balance follows the accounting recurrence: the
\* balance before month 1 is the starting balance 500,000, every month's net
\* flow is its inflow less its outflow, every month's balance is the balance
\* before it plus its net flow, and the final balance is the balance of month
\* timeHorizon.
C21_AccountingRecurrence ==
    /\ \A k \in 1..Len(runs) :
           /\ Len(runs[k].monthlyResults) = params.timeHorizon
           /\ FollowsRecurrence(runs[k].monthlyResults)
           /\ runs[k].finalBalance = BalanceAt(runs[k], params.timeHorizon)
    /\ pc = "months" =>
           /\ FollowsRecurrence(monthlyResults)
           /\ cumulativeBalance =
                  IF monthlyResults = << >> THEN StartingBalance
                  ELSE LastMonth.cumulativeBalance

\* C21: a run of three months of numbers is returned whose balance fell in
\* one month and rose in another.
C21_Witness ==
    /\ runs # << >>
    /\ Len(runs[1].monthlyResults) = MaxHorizon
    /\ ~HasNaN(runs[1])
    /\ \E t \in 1..MaxHorizon : runs[1].monthlyResults[t].netFlow < 0
    /\ \E t \in 1..MaxHorizon : runs[1].monthlyResults[t].netFlow > 0
    /\ runs[1].finalBalance # StartingBalance

(***************************************************************************)
(* Claims about the forecast variants                                      *)
(***************************************************************************)
\* A method of MLForecasting has returned its forecast.
AnyReturned == \E method \in MlMethods : Returned(method)

\* C22: for every variant (regression, ARIMA, Prophet, ensemble) and every
\* horizon h >= 1 the generator returns exactly h results, the i-th dated the
\* first day of the i-th month after the current month, so the dates are
\* strictly increasing in the returned order.
C22_OneResultPerStep ==
    (AnyReturned /\ forecastParams.horizon >= 1) =>
        /\ Len(forecasts) = forecastParams.horizon
        /\ \A k \in 1..Len(forecasts) : forecasts[k].date = now + k
        /\ \A k \in 1..(Len(forecasts) - 1) : forecasts[k].date < forecasts[k + 1].date

\* C22's witness: an ensemble forecast of 36 steps, the last one dated 36
\* months after the current month.
C22_Witness ==
    /\ Returned("generateEnsembleForecast")
    /\ forecastParams.horizon = MaxTimeHorizon
    /\ Len(forecasts) = MaxTimeHorizon
    /\ forecasts[MaxTimeHorizon].date = now + MaxTimeHorizon

\* The monthly net flows the method called reads from the last 12 months.
MonthlyHistory ==
    groupTransactionsByMonth(
        FindTransactions(CashTransactionTable(now), now - ForecastHistoryMonths, now,
                         forecastParams.segmentId))

\* The single month's value of a history of fewer than 2 months, or 0 when
\* there is no data, in hundredths.
SingleMonthValue == IF MonthlyHistory = << >> THEN 0 ELSE MonthlyHistory[1] * Cent

\* C23: with fewer than 2 months of historical net flow the regression trend
\* is degenerate: slope 0 and intercept the single month's value (0 without
\* data), so every step has the same base prediction before the scenario and
\* seasonal factors, and the variance is 0, so lowerBound = predicted =
\* upperBound in every regression forecast.
C23_DegenerateTrend ==
    (Returned("generateRegressionForecast") /\ Len(MonthlyHistory) < 2) =>
        /\ calculateLinearTrend(MonthlyHistory).slope = 0
        /\ calculateLinearTrend(MonthlyHistory).intercept = SingleMonthValue
        /\ calculateVariance(MonthlyHistory) = 0
        /\ \A k \in 1..Len(forecasts) :
               /\ forecasts[k].predicted =
                      MathRound(MulS(MulS(SingleMonthValue,
                                          ForecastScenarioMultiplier(forecastParams.scenario)),
                                     getSeasonalFactor(forecasts[k].date % 12)))
               /\ forecasts[k].lowerBound = forecasts[k].predicted
               /\ forecasts[k].upperBound = forecasts[k].predicted

\* C23's witness: a regression forecast of several steps from a history of one
\* month with a net flow other than 0, whose steps differ by the seasonal
\* factor only.
C23_Witness ==
    /\ Returned("generateRegressionForecast")
    /\ Len(MonthlyHistory) = 1
    /\ MonthlyHistory[1] > 0
    /\ Len(forecasts) >= 8
    /\ forecasts[1].predicted # forecasts[2].predicted
    /\ forecasts[2].lowerBound = forecasts[2].upperBound

\* C23: the case without data is reached too: every step predicts 0.
C23_NoDataReached ==
    /\ Returned("generateRegressionForecast")
    /\ MonthlyHistory = << >>
    /\ Len(forecasts) >= 8
    /\ \A k \in 1..Len(forecasts) : forecasts[k].predicted = 0

\* The regression forecast of the parameters of the call.
RegressionOfCall == generateRegressionForecast(forecastParams, now)

\* x * (1 + 0.1 * sin(j / 3)), in hundredths, for j = 0..39.
WithArEffect(x, j) == x + MulS(MulS(x, 100), SinThird[j + 1])

\* C24, as stated: with the steps numbered as in the base regression (i = 1
\* for the first forecast month), the ARIMA predicted value of step i is the
\* regression predicted value of that step multiplied by 1 + 0.1 * sin(i / 3).
C24_ArimaEffectOfStep ==
    Returned("generateARIMAForecast") =>
        \A k \in 1..Len(forecasts) :
            forecasts[k].predicted = WithArEffect(RegressionOfCall[k].predicted, k)

\* C24, amended: the ARIMA predicted value of step i is the regression
\* predicted value of that step multiplied by 1 + 0.1 * sin((i - 1) / 3), the
\* index being the 0-based position in the returned list; the first step is
\* the regression value itself, and the same holds of the ARIMA part of an
\* ensemble.
C24_ArimaEffectOfPosition ==
    /\ Returned("generateARIMAForecast") =>
           /\ Len(forecasts) = Len(RegressionOfCall)
           /\ \A k \in 1..Len(forecasts) :
                  forecasts[k].predicted =
                      WithArEffect(RegressionOfCall[k].predicted, k - 1)
           /\ forecasts # << >> => forecasts[1].predicted = RegressionOfCall[1].predicted
    /\ Returned("generateEnsembleForecast") =>
           \A k \in 1..Len(ensemble.arima) :
               ensemble.arima[k].predicted =
                   WithArEffect(ensemble.regression[k].predicted, k - 1)

\* C24's witness: an ARIMA forecast of several steps over a history of two
\* months, whose first step is the regression value and whose second is not.
C24_Witness ==
    /\ Returned("generateARIMAForecast")
    /\ Len(MonthlyHistory) = 2
    /\ Len(forecasts) >= 8
    /\ forecasts[1].predicted = RegressionOfCall[1].predicted
    /\ forecasts[1].predicted # 0
    /\ forecasts[2].predicted # RegressionOfCall[2].predicted

\* lowerBound <= predicted <= upperBound in every result of fs.
WithinBounds(fs) ==
    \A k \in 1..Len(fs) :
        /\ Le(fs[k].lowerBound, fs[k].predicted)
        /\ Le(fs[k].predicted, fs[k].upperBound)

\* C25: every ForecastResult returned by any variant (regression, ARIMA,
\* Prophet, ensemble), for any history, scenario and step, has
\* lowerBound <= predicted <= upperBound.
C25_PredictedWithinBounds == AnyReturned => WithinBounds(forecasts)

\* C25, for the variants that compute their own bounds: every result of the
\* regression and of the ensemble has lowerBound <= predicted <= upperBound.
C25_OwnBoundsHold ==
    (Returned("generateRegressionForecast") \/ Returned("generateEnsembleForecast")) =>
        WithinBounds(forecasts)

\* C25: a regression forecast and an ensemble forecast with a step whose
\* bounds lie strictly on either side of its predicted value are returned.
C25_StrictBoundsReached ==
    /\ Returned("generateRegressionForecast") \/ Returned("generateEnsembleForecast")
    /\ Len(forecasts) >= 8
    /\ forecasts[2].lowerBound < forecasts[2].predicted
    /\ forecasts[2].predicted < forecasts[2].upperBound

\* C25: the state the claim excludes, reached: an ARIMA or Prophet result
\* whose predicted value lies above the upper bound it kept from the
\* regression.
C25_OutsideBoundsReached ==
    /\ Returned("generateARIMAForecast") \/ Returned("generateProphetForecast")
    /\ \E k \in 1..Len(forecasts) : forecasts[k].predicted > forecasts[k].upperBound

(***************************************************************************)
(* Claims about the responses of /api/forecasts                            *)
(***************************************************************************)
\* GET /api/forecasts has answered with success.
GetSucceeded ==
    /\ forecastPc = "done"
    /\ forecastRequest.method = "GET"
    /\ forecastResponse.success

\* The model the request asked for, "ENSEMBLE" when the parameter is absent.
RequestedModel ==
    IF forecastRequest.model = Null THEN "ENSEMBLE" ELSE forecastRequest.model[1]

\* C26: in every successful GET /api/forecasts response, whatever model was
\* requested (PROPHET, ARIMA, REGRESSION, LSTM, ENSEMBLE, or the default when
\* the parameter is absent), the model field of every returned forecast is
\* the model echoed in the response's parameters.model.
C26_ForecastModelIsEchoedModel ==
    GetSucceeded =>
        \A k \in 1..Len(forecastResponse.data[1].forecasts) :
            forecastResponse.data[1].forecasts[k].model =
                forecastResponse.data[1].parameters.model

\* C26, for the models the route supports: the echoed model is the requested
\* one, and the forecasts of a PROPHET or ARIMA request carry it; the
\* forecasts of every other request are ARIMA forecasts.
C26_SupportedModelIsEchoedModel ==
    GetSucceeded =>
        /\ forecastResponse.data[1].parameters.model = RequestedModel
        /\ \A k \in 1..Len(forecastResponse.data[1].forecasts) :
               forecastResponse.data[1].forecasts[k].model =
                   IF RequestedModel \in {"PROPHET", "ARIMA"}
                   THEN RequestedModel ELSE "ARIMA"

\* C26: a PROPHET request is answered with PROPHET forecasts.
C26_ProphetReached ==
    /\ GetSucceeded
    /\ RequestedModel = "PROPHET"
    /\ forecastResponse.data[1].forecasts # << >>
    /\ forecastResponse.data[1].forecasts[1].model = "PROPHET"

\* C26: the state the claim excludes, reached: a request without a model
\* parameter is answered with parameters.model ENSEMBLE and ARIMA forecasts.
C26_FallbackReached ==
    /\ GetSucceeded
    /\ forecastRequest.model = Null
    /\ forecastResponse.data[1].parameters.model = "ENSEMBLE"
    /\ forecastResponse.data[1].forecasts # << >>
    /\ forecastResponse.data[1].forecasts[1].model = "ARIMA"

(***************************************************************************)
(* Claims about the stored simulations                                     *)
(***************************************************************************)
\* The simulationIds that have persisted records.
StoredSimulationIds ==
    {simulationResult[k].simulationId : k \in 1..Len(simulationResult)}

\* The persisted records of simulation id, in the order they were written.
RecordsOf(id) == SelectSeq(simulationResult, LAMBDA row : row.simulationId = id)

\* The records rows are the runs 1..Len(rows), once each.
NumberedInOrder(rows) == \A k \in 1..Len(rows) : rows[k].runNumber = k

\* C27: in every reachable state of the data store, every simulationId that
\* has persisted records has as many of them as the numRuns they store, with
\* runNumbers exactly 1..numRuns: no simulation is visible to GET
\* /api/simulation with only part of its runs.
C27_SimulationStoredWhole ==
    \A id \in StoredSimulationIds :
        /\ \A k \in 1..Len(RecordsOf(id)) : RecordsOf(id)[k].numRuns = Len(RecordsOf(id))
        /\ NumberedInOrder(RecordsOf(id))

\* C27, amended: the records of a simulationId all store the same numRuns and
\* are the runs 1..m once each, where m is numRuns or a multiple of the batch
\* size 50 below it (whole batches); m is numRuns once the request has been
\* answered with success, and a simulation with fewer records is either being
\* written or has been answered with the failure of a batch.
C27_StoredInWholeBatches ==
    \A id \in StoredSimulationIds :
        LET rows == RecordsOf(id)
        IN  /\ \A k \in 1..Len(rows) : rows[k].numRuns = params.numRuns
            /\ NumberedInOrder(rows)
            /\ \/ Len(rows) = params.numRuns
               \/ /\ Len(rows) < params.numRuns
                  /\ Len(rows) % BatchSize = 0
                  /\ \/ pc \in {"save", "saving"}
                     \/ pc = "done" /\ response = CaughtFailure
            /\ (pc = "done" /\ response.success) => Len(rows) = params.numRuns

\* C27's witness: a simulation of 100 runs whose second batch failed is in
\* the store with its first 50 runs, each record storing numRuns = 100.
C27_Witness ==
    /\ pc = "done"
    /\ response = CaughtFailure
    /\ params.numRuns = 2 * BatchSize
    /\ params.timeHorizon = MinTimeHorizon
    /\ Len(RecordsOf(simulationId)) = BatchSize
    /\ RecordsOf(simulationId)[BatchSize].numRuns = 2 * BatchSize

(***************************************************************************)
(* Claims about the answers to internal failures                           *)
(***************************************************************************)
\* Response.ok of the fetch API: the status is in the range 200-299.
ResponseOk(r) == r.status >= 200 /\ r.status <= 299

\* C30: every route handler answers an internal failure caught by its
\* try/catch with success = false and HTTP status 500, so that a client
\* testing response.ok never takes a failed request for a successful one;
\* here for POST /api/simulation.
C30_CaughtFailureAnswers500 ==
    StoreFailed =>
        /\ pc = "done"
        /\ response.success = FALSE
        /\ response.status = 500
        /\ ~ResponseOk(response)

\* C30, for /api/forecasts: a failed query of GET or POST is answered with
\* success = false and status 500.
C30_ForecastFailureAnswers500 ==
    (forecastRequest.method \in {"GET", "POST"} /\ StoreFailed) =>
        /\ forecastPc = "done"
        /\ forecastResponse.success = FALSE
        /\ forecastResponse.status = 500
        /\ ~ResponseOk(forecastResponse)

\* C30: a failed query of /api/forecasts, answered, is reached.
C30_ForecastFailureReached ==
    /\ forecastPc = "done"
    /\ StoreFailed
    /\ forecastResponse.status = 500

\* C30: the state the claim excludes, reached: POST /api/simulation answers a
\* failed historical query with success = false under status 200, which
\* response.ok takes for a success.
C30_FailureTakenForSuccess ==
    /\ pc = "done"
    /\ StoreFailed
    /\ response.success = FALSE
    /\ ResponseOk(response)

(***************************************************************************)
(* Claims about the status of a recommendation                             *)
(***************************************************************************)
\* The moves of the status the panel's buttons stand for.
LifecycleMoves ==
    { << "PENDING", "IN_PROGRESS" >>, << "PENDING", "DISMISSED" >>,
      << "IN_PROGRESS", "IMPLEMENTED" >> }

\* C28: for every recommendation, under any interleaving of status updates
\* issued from RecommendationsPanel instances, several of them holding stale
\* lists included, the stored status only ever moves PENDING -> IN_PROGRESS,
\* PENDING -> DISMISSED or IN_PROGRESS -> IMPLEMENTED, and a recommendation
\* that has reached IMPLEMENTED keeps status IMPLEMENTED with a non-null
\* implementedAt.
C28_StatusFollowsLifecycle ==
    [][\A id \in RecommendationIds :
           /\ businessRecommendation'[id].status # businessRecommendation[id].status =>
                  << businessRecommendation[id].status,
                     businessRecommendation'[id].status >> \in LifecycleMoves
           /\ businessRecommendation[id].status = "IMPLEMENTED" =>
                  /\ businessRecommendation'[id].status = "IMPLEMENTED"
                  /\ businessRecommendation'[id].implementedAt # Null]_vars

\* C28, of the store alone: implementedAt is non-null exactly while the
\* status is IMPLEMENTED, whatever the order of the updates.
C28_ImplementedAtWithImplemented ==
    \A id \in RecommendationIds :
        businessRecommendation[id].implementedAt # Null <=>
            businessRecommendation[id].status = "IMPLEMENTED"

\* C28: an update that is a move of the lifecycle is made: a recommendation
\* is IMPLEMENTED with its implementedAt, both panels idle.
C28_ImplementedReached ==
    /\ \E id \in RecommendationIds :
           /\ businessRecommendation[id].status = "IMPLEMENTED"
           /\ businessRecommendation[id].implementedAt = Some(now)
    /\ recommendationCalls = {}

\* C28: the state the claim excludes, reached: a panel whose list still shows
\* the recommendation PENDING has an update to DISMISSED in flight while the
\* store holds it IMPLEMENTED.
C28_StaleUpdateReached ==
    \E call \in recommendationCalls :
        /\ call.method = "PATCH"
        /\ call.stage = "request"
        /\ call.status = "DISMISSED"
        /\ businessRecommendation[call.recommendationId].status = "IMPLEMENTED"

(***************************************************************************)
(* Claims about the panels that refetch                                    *)
(***************************************************************************)
\* Every request of the panel has completed, each with an ok response.
AllCompleted ==
    /\ dashboardPanel.mounted
    /\ \A k \in 1..Len(panelCalls) : panelCalls[k].stage = "done" /\ panelCalls[k].ok

\* The request whose response reached the panel last.
LastArrived == CHOOSE k \in 1..Len(panelCalls) : panelCalls[k].arrival = Len(panelCalls)

\* C29: in the panels that refetch when a filter changes (KPIOverview on
\* segmentId; ForecastingPanel on model, scenario, horizon, segmentId), once
\* all in-flight requests have completed the displayed data is the response
\* to the request made with the currently selected filter values, whatever
\* order the responses arrived in.
C29_DisplayedIsCurrentSelection ==
    AllCompleted => dashboardPanel.displayed = Some(dashboardPanel.filters)

\* C29, as the panels behave: once all requests have completed, the
\* displayed data is the response that arrived last, which is the response
\* to the current selection when the responses arrived in the order the
\* requests were made.
C29_DisplayedIsLastArrival ==
    AllCompleted =>
        /\ dashboardPanel.displayed = Some(panelCalls[LastArrived].filters)
        /\ panelCalls[Len(panelCalls)].filters = dashboardPanel.filters
        /\ (\A k \in 1..Len(panelCalls) : panelCalls[k].arrival = k) =>
               dashboardPanel.displayed = Some(dashboardPanel.filters)

\* C29: responses arrived in the order of their requests after a filter
\* change, and the panel displays the current selection.
C29_InOrderReached ==
    /\ AllCompleted
    /\ Len(panelCalls) >= 2
    /\ \A k \in 1..Len(panelCalls) : panelCalls[k].arrival = k
    /\ dashboardPanel.displayed = Some(dashboardPanel.filters)

\* C29: the state the claim excludes, reached: the ForecastingPanel's first
\* response arrived after the response to the changed filters, every request
\* has completed, and the panel displays the data of the filters it left.
C29_StaleResponseDisplayed ==
    /\ AllCompleted
    /\ dashboardPanel.component = "ForecastingPanel"
    /\ Len(panelCalls) = 2
    /\ panelCalls[1].arrival = 2
    /\ dashboardPanel.displayed = Some(InitialFilters("ForecastingPanel"))
    /\ dashboardPanel.filters # InitialFilters("ForecastingPanel")

=============================================================================
